---- MODULE Spec2Model ----
(***************************************************************************)
(* A model of the copy-trading engine's shared state:                      *)
(*   - tx/dedupe.rs      the optimistic "already bought" guard             *)
(*   - positions/mod.rs  the position registry and its JSON file           *)
(*   - strategy/*.rs     FollowBuy, FollowSell, TakeProfit and the engine  *)
(*   - utils/token_tracker.rs and dex/raydium.rs  the token-amount cache   *)
(*                       and the builders that write it                    *)
(*   - dex/raydium.rs    the CPMM quote and the instruction list           *)
(*   - jito/*.rs         the bundle of a transaction and its tip           *)
(*   - submit/*.rs       the submitters                                    *)
(*   - dex/router.rs and dex/mod.rs  venue detection and routing           *)
(*   - utils/transaction_cache.rs  the cache of pre-built transactions     *)
(*   - dex/raydium.rs, tx/wrapper.rs, utils/fees.rs, dex/pumpfun_math.rs   *)
(*                       pool keys, compute budget and bonding-curve math  *)
(* Each component has its own specifications (SpecDedupe, SpecTrade,       *)
(* SpecCleanup; SpecPositions, SpecSell; SpecStrategy, SpecEngine;         *)
(* SpecTokens, SpecSlippage, SpecAssemble; SpecSwap; SpecBundle;          *)
(* SpecSubmit; SpecIdentify, SpecPlan, SpecRoute; SpecCache; SpecDerive,   *)
(* SpecBudget, SpecCurve), and SpecEmitted hands the engine's sell plans   *)
(* to build_tx_from_plan; a specification holds the variables of the       *)
(* other components at their initial value.                                *)
(***************************************************************************)
EXTENDS Integers, Sequences, FiniteSets, TLC

VARIABLES
    now,            \* SystemTime::now() in ms since the epoch (dedupe.rs:28-33)
    PENDING_BUYS,   \* HashMap<String,u64>: key -> timestamp_ms (dedupe.rs:21)
    CONFIRMED_BUYS, \* HashSet<String> (dedupe.rs:16)
    next_tick,      \* deadline of the cleanup task's interval (dedupe.rs:136)
    pc,             \* per task: where it stands inside a call / a trade
    arg,            \* per task: the key its call in progress works on
    submit_at,      \* per task: the time its trade was handed to the submitter
    remarked,       \* history: keys whose pending entry was written while the
                    \* key was confirmed or a confirm_buy/clear of it was running
    last_op,        \* history: the call that completed last, <<name, key>>
    marked_at,      \* history: per task, the time its trade marked its key
    positions,      \* PositionManager.positions: HashMap<Pubkey, Position>
    file,           \* the file at STORAGE_PATH: what a reader finds there
    pm_pc,          \* where the PositionManager stands inside persist()
    loaded,         \* what the latest PositionManager::load of a reader met
    last_call,      \* history: the latest record_buy/record_sell/update_price
                    \* call and the position it found
    settings,       \* the Settings handed to the strategies
    fill,           \* the ObservedFill handed to StrategyEngine::on_fill
    plans,          \* the Vec<TradePlan> on_fill returned for it
    STRATEGY_ENGINE,\* OnceCell<Arc<EngineShared>>: None or Some(the EngineShared)
    engines,        \* the StrategyEngine values constructed so far
    TOKEN_AMOUNTS,  \* HashMap<(Pubkey, Pubkey), u64> (token_tracker.rs:13)
    build_pc,       \* per task: where it stands inside a RaydiumDex build
    build,          \* per task: the build it runs or ran last
    calc,           \* the latest calculate_sell_amount call and its result
    slippage,       \* the slippage and tip fields of Settings the builders read
    quote,          \* the latest min_amount_out a builder computed
    swap,           \* the latest calculate_swap_amount call and its result
    tips,           \* the bribe and priority-fee fields of Settings
    bundle,         \* the latest build_jito_bundle call and its result
    submitter,      \* the Submitter submit::default returned
    submitted,      \* the latest submit call, its POSTs and its result
    identified,     \* the latest identify_dex_by_program_ids call and its result
    planned,        \* the latest build_tx_from_plan call and its result
    pump_swap_coin_creators, \* pool_tracker: mint -> coin_creator seen on the stream
    pumpfun_constants,       \* pool_tracker: mint -> constants of the bonding curve
    routed,         \* the latest route_transaction call and its result
    instant,        \* Instant::now(), in ms since the cache was constructed
    fresh_mints,    \* TransactionCache.fresh_mints (transaction_cache.rs:27)
    general_cache,  \* TransactionCache.general_cache (transaction_cache.rs:28)
    caching,        \* mints whose cache_fresh_mint call is past its check
    sweep,          \* where cleanup_expired stands, and the now it captured
    inserted,       \* history: per cache and mint, the instant of the latest insert
    looked,         \* the latest has_valid_transaction call and its result
    derived,        \* the derive_pool_keys_for_migrated_token calls made so far
    pushed,         \* the latest push_compute_budget_ix call and the Vec it grew
    curve           \* the min_tokens_out call in progress: its locals

dedupeVars == <<now, PENDING_BUYS, CONFIRMED_BUYS, next_tick, pc, arg,
                submit_at, remarked, last_op, marked_at>>
positionVars == <<positions, file, pm_pc, loaded, last_call>>
strategyVars == <<settings, fill, plans, STRATEGY_ENGINE, engines>>
tokenVars == <<TOKEN_AMOUNTS, build_pc, build, calc, slippage, quote>>
swapVars == <<swap>>
engineVars == <<dedupeVars, positionVars, strategyVars, tokenVars>>
bundleVars == <<tips, bundle>>
submitVars == <<submitter, submitted>>
routerVars == <<identified, planned, pump_swap_coin_creators,
                pumpfun_constants, routed>>
cacheVars == <<instant, fresh_mints, general_cache, caching, sweep, inserted,
               looked>>
mathVars == <<derived, pushed, curve>>
venueVars == <<swapVars, bundleVars, submitVars, routerVars, cacheVars,
               mathVars>>
vars == <<engineVars, venueVars>>
\* what the actions of one component leave alone
notDedupe == <<marked_at, positionVars, strategyVars, tokenVars, venueVars>>
\* a trade's mark writes the history of marks
notTrade == <<positionVars, strategyVars, tokenVars, venueVars>>
notPositions == <<dedupeVars, strategyVars, tokenVars, venueVars>>
notStrategy == <<dedupeVars, positionVars, tokenVars, venueVars>>
notTokens == <<dedupeVars, positionVars, strategyVars, venueVars>>
notSwap == <<engineVars, bundleVars, submitVars, routerVars, cacheVars,
             mathVars>>
notBundle == <<engineVars, swapVars, submitVars, routerVars, cacheVars,
               mathVars>>
notSubmit == <<engineVars, swapVars, bundleVars, routerVars, cacheVars,
               mathVars>>
\* the router's builds write the token cache
notRouter == <<swapVars, bundleVars, submitVars, cacheVars, mathVars>>
notCache == <<engineVars, swapVars, bundleVars, submitVars, routerVars,
              mathVars>>
notMath == <<engineVars, swapVars, bundleVars, submitVars, routerVars,
             cacheVars>>

(***************************************************************************)
(* Bounds of the model.                                                    *)
(***************************************************************************)
\* how many of the sampled clock readings the clock runs through
MaxTicks == 6

\* clock readings (ms) the model samples; they include the ages 300, 1000
\* (the boundary), 1200 and the cleanup period 500
TimePoint == <<0, 300, 500, 1000, 1200, 1500, 2000, 2500, 3000>>
Instants == {TimePoint[i] : i \in 1..MaxTicks}
Horizon == TimePoint[MaxTicks]

Wallets == {"W"}
Mints == {"M1", "M2"}
Tasks == {"t1", "t2"}

NoKey == <<>>
NoTime == "never"
NoOp == <<"none", NoKey>>

(***************************************************************************)
(* tx/dedupe.rs                                                            *)
(***************************************************************************)
PENDING_TIMEOUT_MS == 1000
CLEANUP_INTERVAL_MS == 500

\* format!("{wallet}:{mint}"): base58 keys hold no ':', so the string is the pair
format_key(wallet, mint) == <<wallet, mint>>
Keys == {format_key(w, m) : w \in Wallets, m \in Mints}

current_timestamp_ms == now

saturating_sub(a, b) == IF a >= b THEN a - b ELSE 0

\* HashMap::insert / HashMap::remove
insert(map, k, v) == [x \in (DOMAIN map) \cup {k} |-> IF x = k THEN v ELSE map[x]]
remove(map, k) == [x \in (DOMAIN map) \ {k} |-> map[x]]

should_allow_buy_wrong(wallet, mint) ==
    LET key == format_key(wallet, mint) IN
    IF key \in DOMAIN PENDING_BUYS
    THEN saturating_sub(current_timestamp_ms, PENDING_BUYS[key]) >= PENDING_TIMEOUT_MS
    ELSE TRUE

should_allow_buy(wallet, mint) ==
    LET key == format_key(wallet, mint) IN
    IF key \in DOMAIN PENDING_BUYS
    THEN LET timestamp == PENDING_BUYS[key]
             age_ms == saturating_sub(current_timestamp_ms, timestamp)
         IN  IF age_ms > PENDING_TIMEOUT_MS THEN TRUE ELSE FALSE
    ELSE TRUE

\* the map mark_pending_buy leaves in PENDING_BUYS
mark_pending_buy(wallet, mint) ==
    insert(PENDING_BUYS, format_key(wallet, mint), current_timestamp_ms)

confirm_buy_keeps_pending(wallet, mint) == PENDING_BUYS

\* confirm_buy, first lock: PENDING_BUYS.lock().await.remove(&key)
confirm_buy_pending(wallet, mint) == remove(PENDING_BUYS, format_key(wallet, mint))

\* confirm_buy, second lock: CONFIRMED_BUYS.lock().await.insert(key)
confirm_buy_confirmed(key) == CONFIRMED_BUYS \cup {key}

rollback_keeps_pending(wallet, mint) == PENDING_BUYS

\* the map rollback_pending_buy leaves in PENDING_BUYS (its only lock)
rollback_pending_buy(wallet, mint) == remove(PENDING_BUYS, format_key(wallet, mint))

clear_keeps_confirmed(key) == CONFIRMED_BUYS

\* clear, first lock then second lock
clear_pending(wallet, mint) == remove(PENDING_BUYS, format_key(wallet, mint))
clear_confirmed(key) == CONFIRMED_BUYS \ {key}

has_confirmed_buy(wallet, mint) == format_key(wallet, mint) \in CONFIRMED_BUYS

cleanup_keep_wrong(key, timestamp) ==
    saturating_sub(current_timestamp_ms, timestamp) < PENDING_TIMEOUT_MS

\* the closure of pending.retain(..)
cleanup_keep(key, timestamp) ==
    LET age_ms == saturating_sub(current_timestamp_ms, timestamp)
    IN  age_ms <= PENDING_TIMEOUT_MS

\* pending.retain(..): the entries the closure keeps
cleanup_old_pending ==
    [x \in {y \in DOMAIN PENDING_BUYS : cleanup_keep(y, PENDING_BUYS[y])}
        |-> PENDING_BUYS[x]]

----------------------------------------------------------------------------
(* history bookkeeping *)
InProgress(key) ==
    \E t \in Tasks : pc[t] \in {"confirm_insert", "clear_confirmed"} /\ arg[t] = key

MarkedLate(key) ==
    IF key \in CONFIRMED_BUYS \/ InProgress(key)
    THEN remarked \cup {key} ELSE remarked \ {key}

----------------------------------------------------------------------------
(* The clock and the background task *)
Tick ==
    /\ \E i \in Instants : i > now /\ now' = i
    /\ UNCHANGED <<PENDING_BUYS, CONFIRMED_BUYS, next_tick, pc, arg, submit_at,
                   remarked, last_op>>
    /\ UNCHANGED notDedupe

\* one turn of the loop of start_cleanup_task: interval.tick() has come due
\* (the first tick is due at once), then cleanup_old_pending runs
CleanupTask ==
    /\ next_tick <= now
    /\ next_tick' = next_tick + CLEANUP_INTERVAL_MS
    /\ PENDING_BUYS' = cleanup_old_pending
    /\ remarked' = remarked \cap DOMAIN PENDING_BUYS'
    /\ UNCHANGED <<now, CONFIRMED_BUYS, pc, arg, submit_at, last_op>>
    /\ UNCHANGED notDedupe

(* The calls of the module, made by any task at any time *)
MarkPendingBuy(t, w, m) ==
    /\ pc[t] = "idle"
    /\ PENDING_BUYS' = mark_pending_buy(w, m)
    /\ remarked' = MarkedLate(format_key(w, m))
    /\ last_op' = <<"mark_pending_buy", format_key(w, m)>>
    /\ UNCHANGED <<now, CONFIRMED_BUYS, next_tick, pc, arg, submit_at>>
    /\ UNCHANGED notDedupe

ConfirmBuyRemove(t, w, m) ==
    /\ pc[t] = "idle"
    /\ PENDING_BUYS' = confirm_buy_pending(w, m)
    /\ remarked' = remarked \cap DOMAIN PENDING_BUYS'
    /\ pc' = [pc EXCEPT ![t] = "confirm_insert"]
    /\ arg' = [arg EXCEPT ![t] = format_key(w, m)]
    /\ UNCHANGED <<now, CONFIRMED_BUYS, next_tick, submit_at, last_op>>
    /\ UNCHANGED notDedupe

ConfirmBuyInsert(t) ==
    /\ pc[t] = "confirm_insert"
    /\ CONFIRMED_BUYS' = confirm_buy_confirmed(arg[t])
    /\ pc' = [pc EXCEPT ![t] = "idle"]
    /\ arg' = [arg EXCEPT ![t] = NoKey]
    /\ last_op' = <<"confirm_buy", arg[t]>>
    /\ UNCHANGED <<now, PENDING_BUYS, next_tick, submit_at, remarked>>
    /\ UNCHANGED notDedupe

RollbackPendingBuy(t, w, m) ==
    /\ pc[t] = "idle"
    /\ PENDING_BUYS' = rollback_pending_buy(w, m)
    /\ remarked' = remarked \cap DOMAIN PENDING_BUYS'
    /\ last_op' = <<"rollback_pending_buy", format_key(w, m)>>
    /\ UNCHANGED <<now, CONFIRMED_BUYS, next_tick, pc, arg, submit_at>>
    /\ UNCHANGED notDedupe

ClearPending(t, w, m) ==
    /\ pc[t] = "idle"
    /\ PENDING_BUYS' = clear_pending(w, m)
    /\ remarked' = remarked \cap DOMAIN PENDING_BUYS'
    /\ pc' = [pc EXCEPT ![t] = "clear_confirmed"]
    /\ arg' = [arg EXCEPT ![t] = format_key(w, m)]
    /\ UNCHANGED <<now, CONFIRMED_BUYS, next_tick, submit_at, last_op>>
    /\ UNCHANGED notDedupe

ClearConfirmed(t) ==
    /\ pc[t] = "clear_confirmed"
    /\ CONFIRMED_BUYS' = clear_confirmed(arg[t])
    /\ pc' = [pc EXCEPT ![t] = "idle"]
    /\ arg' = [arg EXCEPT ![t] = NoKey]
    /\ last_op' = <<"clear", arg[t]>>
    /\ UNCHANGED <<now, PENDING_BUYS, next_tick, submit_at, remarked>>
    /\ UNCHANGED notDedupe

DedupeInit ==
    /\ now = TimePoint[1]
    /\ PENDING_BUYS = <<>>
    /\ CONFIRMED_BUYS = {}
    /\ next_tick = now
    /\ pc = [t \in Tasks |-> "idle"]
    /\ arg = [t \in Tasks |-> NoKey]
    /\ submit_at = [t \in Tasks |-> NoTime]
    /\ remarked = {}
    /\ last_op = NoOp
    /\ marked_at = [t \in Tasks |-> NoTime]


DedupeStep ==
    \/ Tick
    \/ CleanupTask
    \/ \E t \in Tasks, w \in Wallets, m \in Mints : MarkPendingBuy(t, w, m)
    \/ \E t \in Tasks, w \in Wallets, m \in Mints : ConfirmBuyRemove(t, w, m)
    \/ \E t \in Tasks : ConfirmBuyInsert(t)
    \/ \E t \in Tasks, w \in Wallets, m \in Mints : RollbackPendingBuy(t, w, m)
    \/ \E t \in Tasks, w \in Wallets, m \in Mints : ClearPending(t, w, m)
    \/ \E t \in Tasks : ClearConfirmed(t)


----------------------------------------------------------------------------
(***************************************************************************)
(* The caller's protocol around the guard (spec 4.3 and 4.5): a trade is   *)
(* PLANNED once should_allow_buy let it pass, PENDING_SUBMIT once marked,  *)
(* SUBMITTED or FAILED_SUBMIT after the submitter answered, and            *)
(* DONE_FAILED after the rollback. Each task runs one trade.               *)
(***************************************************************************)
TradeCheck(t, w, m) ==
    /\ pc[t] = "idle"
    /\ pc' = [pc EXCEPT ![t] = IF should_allow_buy(w, m) THEN "PLANNED" ELSE "DROPPED"]
    /\ arg' = [arg EXCEPT ![t] = format_key(w, m)]
    /\ UNCHANGED <<now, PENDING_BUYS, CONFIRMED_BUYS, next_tick, submit_at,
                   remarked, last_op>>
    /\ UNCHANGED notDedupe

TradeMark(t) ==
    /\ pc[t] = "PLANNED"
    /\ PENDING_BUYS' = mark_pending_buy(arg[t][1], arg[t][2])
    /\ remarked' = MarkedLate(arg[t])
    /\ pc' = [pc EXCEPT ![t] = "PENDING_SUBMIT"]
    /\ last_op' = <<"mark_pending_buy", arg[t]>>
    /\ marked_at' = [marked_at EXCEPT ![t] = now]
    /\ UNCHANGED <<now, CONFIRMED_BUYS, next_tick, arg, submit_at>>
    /\ UNCHANGED notTrade

TradeSubmitOk(t) ==
    /\ pc[t] = "PENDING_SUBMIT"
    /\ pc' = [pc EXCEPT ![t] = "SUBMITTED"]
    /\ submit_at' = [submit_at EXCEPT ![t] = now]
    /\ UNCHANGED <<now, PENDING_BUYS, CONFIRMED_BUYS, next_tick, arg, remarked,
                   last_op>>
    /\ UNCHANGED notDedupe

TradeSubmitFail(t) ==
    /\ pc[t] = "PENDING_SUBMIT"
    /\ pc' = [pc EXCEPT ![t] = "FAILED_SUBMIT"]
    /\ UNCHANGED <<now, PENDING_BUYS, CONFIRMED_BUYS, next_tick, arg, submit_at,
                   remarked, last_op>>
    /\ UNCHANGED notDedupe

TradeRollback(t) ==
    /\ pc[t] = "FAILED_SUBMIT"
    /\ PENDING_BUYS' = rollback_pending_buy(arg[t][1], arg[t][2])
    /\ remarked' = remarked \cap DOMAIN PENDING_BUYS'
    /\ pc' = [pc EXCEPT ![t] = "DONE_FAILED"]
    /\ last_op' = <<"rollback_pending_buy", arg[t]>>
    /\ UNCHANGED <<now, CONFIRMED_BUYS, next_tick, arg, submit_at>>
    /\ UNCHANGED notDedupe

TradeStep ==
    \/ Tick
    \/ CleanupTask
    \/ \E t \in Tasks, w \in Wallets, m \in Mints : TradeCheck(t, w, m)
    \/ \E t \in Tasks : TradeMark(t)
    \/ \E t \in Tasks : TradeSubmitOk(t)
    \/ \E t \in Tasks : TradeSubmitFail(t)
    \/ \E t \in Tasks : TradeRollback(t)


\* The guard's single-lock calls beside the cleanup loop; the runtime keeps
\* the clock running and the spawned loop scheduled.
CleanupStep ==
    \/ Tick
    \/ CleanupTask
    \/ \E t \in Tasks, w \in Wallets, m \in Mints : MarkPendingBuy(t, w, m)
    \/ \E t \in Tasks, w \in Wallets, m \in Mints : RollbackPendingBuy(t, w, m)


----------------------------------------------------------------------------
(***************************************************************************)
(* positions/mod.rs                                                        *)
(***************************************************************************)
\* largest balance and cost basis a position of the model reaches
MaxBalance == 2
MaxCost == 2

Qtys == 0..MaxBalance          \* qty_base_units handed to record_buy/record_sell
Costs == 0..MaxCost            \* cost_lamports handed to record_buy
Prices == {1, 3}               \* price_lamports handed to update_price
\* Option<T>: None and Some(x)
None == <<>>
Some(x) == <<x>>

\* unix_timestamp(): seconds since the epoch
unix_timestamp == now \div 1000

round_div_down(n, d) == n \div d

\* f64::round of the non-negative quotient n/d: half away from zero
round_div(n, d) == (2 * n + d) \div (2 * d)

\* PositionManager::balance
balance(mint) == IF mint \in DOMAIN positions THEN positions[mint].balance ELSE 0

\* the registry record_buy leaves: entry(mint).or_insert(..), then the two +=
record_buy(mint, qty_base_units, cost_lamports) ==
    LET entry == IF mint \in DOMAIN positions THEN positions[mint]
                 ELSE [mint |-> mint, balance |-> 0, cost_lamports |-> 0,
                       last_price |-> None, updated_at |-> unix_timestamp]
    IN  insert(positions, mint,
               [entry EXCEPT !.balance = @ + qty_base_units,
                             !.cost_lamports = @ + cost_lamports,
                             !.updated_at = unix_timestamp])

record_sell_keeps_empty(mint, qty_base_units) ==
    LET pos == positions[mint] IN
    IF qty_base_units > pos.balance
    THEN remove(positions, mint)
    ELSE insert(positions, mint,
                [pos EXCEPT !.balance = @ - qty_base_units,
                            !.cost_lamports = 0,
                            !.updated_at = unix_timestamp])

\* the registry record_sell leaves for a mint that has a position
record_sell(mint, qty_base_units) ==
    LET pos == positions[mint] IN
    IF qty_base_units >= pos.balance
    THEN remove(positions, mint)
    ELSE LET reduce_cost == round_div(pos.cost_lamports * qty_base_units, pos.balance)
         IN  insert(positions, mint,
                    [pos EXCEPT !.balance = @ - qty_base_units,
                                !.cost_lamports = @ - reduce_cost,
                                !.updated_at = unix_timestamp])

\* the registry update_price leaves for a mint that has a position
update_price(mint, price_lamports) ==
    insert(positions, mint,
           [positions[mint] EXCEPT !.last_price = Some(price_lamports),
                                   !.updated_at = unix_timestamp])

\* persist(): fs::File::create truncates (or creates) the file ...
file_created == [status |-> "empty", content |-> <<>>]
\* ... write_all may hand the bytes over in more than one write ...
file_partly_written == [status |-> "partial", content |-> positions]
\* ... and returns once all of the JSON is in the file
file_written == [status |-> "complete", content |-> positions]

\* PositionManager::load: Default when the path does not exist, the parsed map
\* when the bytes are a JSON dictionary, serde's error on anything else
load ==
    CASE file.status = "missing" -> [result |-> "Ok", seen |-> "missing"]
      [] file.status = "complete" -> [result |-> "Ok", seen |-> "complete"]
      [] OTHER -> [result |-> "Err", seen |-> file.status]

\* cost basis of a mint, 0 without a position
cost_basis(mint) == IF mint \in DOMAIN positions THEN positions[mint].cost_lamports ELSE 0

\* history record of a call: the arguments and the position the call found
NoCall == [op |-> "none", mint |-> "", qty |-> 0, balance |-> 0, cost |-> 0,
           held |-> FALSE, after_buy |-> FALSE]
Called(op, mint, qty) ==
    [op |-> op, mint |-> mint, qty |-> qty, balance |-> balance(mint),
     cost |-> cost_basis(mint), held |-> mint \in DOMAIN positions,
     \* a record_sell that directly follows the record_buy of the same quantity
     \* that opened the position
     after_buy |-> /\ op = "record_sell" /\ last_call.op = "record_buy"
                   /\ last_call.mint = mint /\ last_call.qty = qty
                   /\ ~last_call.held]

\* record_buy: the registry is updated, then persist() starts. The sums stay
\* within the model's bounds (u128 and u64 are not exhausted).
RecordBuy(mint, qty, cost) ==
    /\ pm_pc = "idle"
    /\ balance(mint) + qty <= MaxBalance
    /\ cost_basis(mint) + cost <= MaxCost
    /\ positions' = record_buy(mint, qty, cost)
    /\ last_call' = Called("record_buy", mint, qty)
    /\ file' = file_created
    /\ pm_pc' = "write_all"
    /\ UNCHANGED loaded
    /\ UNCHANGED notPositions

\* record_sell on a mint with a position (without one it returns Ok untouched)
RecordSell(mint, qty) ==
    /\ pm_pc = "idle"
    /\ mint \in DOMAIN positions
    /\ positions' = record_sell(mint, qty)
    /\ last_call' = Called("record_sell", mint, qty)
    /\ file' = file_created
    /\ pm_pc' = "write_all"
    /\ UNCHANGED loaded
    /\ UNCHANGED notPositions

\* update_price on a mint with a position (without one it returns Ok untouched)
UpdatePrice(mint, price) ==
    /\ pm_pc = "idle"
    /\ mint \in DOMAIN positions
    /\ positions' = update_price(mint, price)
    /\ last_call' = Called("update_price", mint, 0)
    /\ file' = file_created
    /\ pm_pc' = "write_all"
    /\ UNCHANGED loaded
    /\ UNCHANGED notPositions

PersistWritePart ==
    /\ pm_pc = "write_all"
    /\ file.status = "empty"
    /\ file' = file_partly_written
    /\ UNCHANGED <<positions, pm_pc, loaded, last_call>>
    /\ UNCHANGED notPositions

PersistWriteAll ==
    /\ pm_pc = "write_all"
    /\ file' = file_written
    /\ pm_pc' = "idle"
    /\ UNCHANGED <<positions, loaded, last_call>>
    /\ UNCHANGED notPositions

\* a reader (another task or process) calls PositionManager::load
Load ==
    /\ loaded' = load
    /\ UNCHANGED <<positions, file, pm_pc, last_call>>
    /\ UNCHANGED notPositions

\* PositionManager::load() found no file at start-up
PositionsInit ==
    /\ positions = <<>>
    /\ file = [status |-> "missing", content |-> <<>>]
    /\ pm_pc = "idle"
    /\ loaded = [result |-> "none", seen |-> "not_called"]
    /\ last_call = NoCall

\* registries holding one position, as record_buy(mint, bal, cost) leaves them
Held(mint, bal, cost) ==
    [m \in {mint} |-> [mint |-> mint, balance |-> bal, cost_lamports |-> cost,
                       last_price |-> None, updated_at |-> 0]]
\* 1000, 4000 and 250 stand for 1,000,000, 4,000,000 and 250,000 base units
SellBalances == {1, 2, 3, 4, 1000}
SellCosts == {0, 1, 2, 3, 5, 4000}
SellQtys == {0, 1, 2, 3, 4, 5, 250, 1000}
SellSnapshots == {Held("M1", b, c) : b \in SellBalances, c \in SellCosts}

SellStep ==
    \/ \E m \in Mints, q \in SellQtys : RecordSell(m, q)
    \/ PersistWritePart
    \/ PersistWriteAll

PositionsStep ==
    \/ \E m \in Mints, q \in Qtys, c \in Costs : RecordBuy(m, q, c)
    \/ \E m \in Mints, q \in Qtys : RecordSell(m, q)
    \/ \E m \in Mints, p \in Prices : UpdatePrice(m, p)
    \/ PersistWritePart
    \/ PersistWriteAll
    \/ Load


(***************************************************************************)
(* config/settings.rs and strategy/*.rs                                    *)
(* An f64 is held as an integer in a fixed unit: SOL amounts in tenths of  *)
(* a lamport, fractions and percentages in thousandths (0.90 is 900, 1.0   *)
(* is 1000, 120.0 is 120000).                                              *)
(***************************************************************************)
DexKind == {"Pumpfun", "PumpSwap", "Moonshot", "Raydium", "Meteora", "RaydiumLaunchpad"}
Side == {"Buy", "Sell"}

\* Settings::sol_to_lamports: (sol * LAMPORTS_PER_SOL).round() as u64, the cast
\* taking a negative value to 0
sol_to_lamports(sol) == IF sol < 0 THEN 0 ELSE round_div(sol, 10)

\* TradePlan::buy_pumpfun .. buy_raydium_launchpad: one helper per venue, each
\* setting its own venue
TradePlan_buy(dex, mint, lamports) ==
    [dex |-> dex, side |-> "Buy", mint |-> mint, buy_lamports |-> lamports,
     sell_pct |-> None, known_token_amount |-> None,
     calculated_token_amount |-> None]

\* TradePlan::sell_pumpfun_percent .. sell_raydium_launchpad_percent
TradePlan_sell_percent(dex, mint, pct) ==
    [dex |-> dex, side |-> "Sell", mint |-> mint, buy_lamports |-> 0,
     sell_pct |-> Some(pct), known_token_amount |-> None,
     calculated_token_amount |-> None]

\* settings.tracked_wallets.iter().find(|w| w.label == f.wallet_label):
\* the index of the first wallet with the label, 0 when there is none
find_wallet(tracked_wallets, label) ==
    LET hits == {i \in 1..Len(tracked_wallets) : tracked_wallets[i].label = label}
    IN  IF hits = {} THEN 0 ELSE CHOOSE i \in hits : \A j \in hits : i <= j

FollowBuy_gate_inclusive(f, s) ==
    IF f.side # "Buy" THEN <<>>
    ELSE LET i == find_wallet(s.tracked_wallets, f.wallet_label) IN
         IF i = 0 THEN <<>>
         ELSE IF f.cost_lamports <= sol_to_lamports(s.tracked_wallets[i].sol_gate)
              THEN <<>>
              ELSE <<TradePlan_buy(f.dex, f.mint,
                                   sol_to_lamports(s.tracked_wallets[i].buy_amount_sol))>>

\* FollowBuy::on_fill
FollowBuy_on_fill(f, s) ==
    IF f.side # "Buy" THEN <<>>
    ELSE LET i == find_wallet(s.tracked_wallets, f.wallet_label) IN
         IF i = 0 THEN <<>>
         ELSE LET wallet_config == s.tracked_wallets[i]
                  gate_lamports == sol_to_lamports(wallet_config.sol_gate)
              IN  IF f.cost_lamports < gate_lamports THEN <<>>
                  ELSE LET lamports == sol_to_lamports(wallet_config.buy_amount_sol)
                       IN  <<TradePlan_buy(f.dex, f.mint, lamports)>>

FollowSell_saturates_above(f, s) ==
    IF f.side # "Sell" THEN <<>>
    ELSE LET pct == IF f.pct_of_balance > 900 THEN 1000 ELSE f.pct_of_balance
         IN  <<TradePlan_sell_percent(f.dex, f.mint, pct)>>

\* FollowSell::on_fill
FollowSell_on_fill(f, s) ==
    IF f.side # "Sell" THEN <<>>
    ELSE LET pct == IF f.pct_of_balance >= 900 THEN 1000 ELSE f.pct_of_balance
         IN  <<TradePlan_sell_percent(f.dex, f.mint, pct)>>

\* Position::unrealised_pnl_pct compared with a threshold: is
\* ((p / avg_cost) - 1.0) * 100.0 >= threshold, where avg_cost is
\* cost_lamports / balance and is 0.0 for balance 0. With avg_cost 0.0 the
\* quotient is +inf for p > 0 (the comparison holds) and NaN or -inf otherwise.
pnl_at_least(pos, threshold) ==
    LET p == pos.last_price[1] IN
    IF pos.balance = 0 \/ pos.cost_lamports = 0 THEN p > 0
    ELSE (p * pos.balance - pos.cost_lamports) * 100000
            >= threshold * pos.cost_lamports

\* TakeProfit::on_fill; positions is the registry of the EngineShared that
\* STRATEGY_ENGINE refers to
TakeProfit_on_fill(f, s) ==
    IF f.side # "Sell" THEN <<>>
    ELSE IF STRATEGY_ENGINE = None THEN <<>>
    ELSE IF balance(f.mint) = 0 THEN <<>>
    ELSE IF positions[f.mint].last_price = None THEN <<>>
    ELSE IF ~pnl_at_least(positions[f.mint], s.take_profit_percent) THEN <<>>
    ELSE IF f.dex = "RaydiumLaunchpad"
         THEN <<TradePlan_sell_percent(f.dex, f.mint, s.take_profit_percent)>>
         ELSE <<TradePlan_sell_percent(f.dex, f.mint, s.take_profit_sell_fraction)>>

\* the EngineShared whose PositionManager TakeProfit::on_fill locks:
\* STRATEGY_ENGINE.get(), whichever engine runs the strategy
consulted_by_take_profit(engine) == STRATEGY_ENGINE

\* Settings::enabled_wallets
enabled_wallets(s) == SelectSeq(s.tracked_wallets, LAMBDA w : w.enabled)

\* OnceCell::set keeps the value only when the cell is still empty
OnceCell_overwrite(cell, value) == Some(value)

OnceCell_set(cell, value) == IF cell = None THEN Some(value) ELSE cell

\* the strategies StrategyEngine::new pushes, in that order
Registered_reversed == <<"TakeProfit", "FollowSell", "FollowBuy">>

Registered == <<"FollowBuy", "FollowSell", "TakeProfit">>

\* StrategyEngine::new(shared): the engine it returns
StrategyEngine_new(shared) == [strategies |-> Registered, positions |-> shared]

\* strat.on_fill(fill, settings) through the Strategy trait object
Strategy_on_fill(strat, f, s) ==
    CASE strat = "FollowBuy" -> FollowBuy_on_fill(f, s)
      [] strat = "FollowSell" -> FollowSell_on_fill(f, s)
      [] strat = "TakeProfit" -> TakeProfit_on_fill(f, s)

\* the loop of StrategyEngine::on_fill: out.extend(strat.on_fill(..)) for each
\* registered strategy in turn
RECURSIVE extend_all(_, _, _)
extend_all(strategies, f, s) ==
    IF strategies = <<>> THEN <<>>
    ELSE Strategy_on_fill(Head(strategies), f, s) \o extend_all(Tail(strategies), f, s)

\* StrategyEngine::on_fill of an engine StrategyEngine::new built
StrategyEngine_on_fill(f, s) == extend_all(StrategyEngine_new("S1").strategies, f, s)

(* The inputs the model draws *)
WalletA == [label |-> "A", enabled |-> TRUE, sol_gate |-> 10000000,
            buy_amount_sol |-> 30000000]     \* gate 0.001 SOL, buys 0.003 SOL
WalletB == [label |-> "B", enabled |-> FALSE, sol_gate |-> 0,
            buy_amount_sol |-> 15]           \* no gate, buys 1.5 lamports
WalletA2 == [label |-> "A", enabled |-> TRUE, sol_gate |-> 5,
             buy_amount_sol |-> 10000000]    \* a second entry labelled "A"
WalletLists == {<<>>, <<WalletA>>, <<WalletA, WalletB>>, <<WalletB, WalletA, WalletA2>>}
SettingsSet ==
    [tracked_wallets : WalletLists,
     take_profit_percent : {120000},
     take_profit_sell_fraction : {500, 1000}]

Labels == {"A", "B", "X"}
CostLamports == {0, 500000, 999999, 1000000, 2000000}
Pcts == {0, 250, 899, 900, 1000}
Fills ==
    [mint : Mints, side : Side, cost_lamports : CostLamports,
     pct_of_balance : Pcts, dex : DexKind, wallet_label : Labels]

\* registries record_buy and update_price build for "M1"
HeldM1(price) ==
    [m \in {"M1"} |-> [mint |-> "M1", balance |-> 2, cost_lamports |-> 2,
                       last_price |-> price, updated_at |-> 0]]
PositionSnapshots == {<<>>, HeldM1(None), HeldM1(Some(1)), HeldM1(Some(3))}

NoFill == <<>>

\* the engine is handed an observed fill; on_fill keeps nothing from one fill
\* to the next, so a run of the model follows a single call
OnFill(f) ==
    /\ engines # <<>>
    /\ fill = NoFill
    /\ fill' = f
    /\ plans' = StrategyEngine_on_fill(f, settings)
    /\ UNCHANGED <<settings, STRATEGY_ENGINE, engines>>
    /\ UNCHANGED notStrategy

\* how many engines a run constructs
MaxEngines == 2
EngineShareds == {"S1", "S2"}

\* StrategyEngine::new(shared)
StrategyEngineNew(shared) ==
    /\ Len(engines) < MaxEngines
    /\ STRATEGY_ENGINE' = OnceCell_set(STRATEGY_ENGINE, shared)
    /\ engines' = Append(engines, StrategyEngine_new(shared))
    /\ UNCHANGED <<settings, fill, plans>>
    /\ UNCHANGED notStrategy

\* before the first StrategyEngine::new
StrategyInit ==
    /\ settings = <<>>
    /\ fill = NoFill
    /\ plans = <<>>
    /\ STRATEGY_ENGINE = None
    /\ engines = <<>>

StrategyStep == \E f \in Fills : OnFill(f)

(***************************************************************************)
(* utils/token_tracker.rs and the builders of dex/raydium.rs               *)
(* A slippage percentage is held in thousandths of a percent (0.5 % is     *)
(* 500, 100 % is 100000), sell_min_sol_out in lamports.                    *)
(***************************************************************************)
\* settings.keypair.pubkey(): the one signer of the process
me == CHOOSE w \in Wallets : TRUE

store_token_amount(wallet, mint, amount) == insert(TOKEN_AMOUNTS, <<wallet, mint>>, amount)

get_token_amount(wallet, mint) ==
    IF <<wallet, mint>> \in DOMAIN TOKEN_AMOUNTS
    THEN Some(TOKEN_AMOUNTS[<<wallet, mint>>]) ELSE None

clear_token_amount(wallet, mint) == remove(TOKEN_AMOUNTS, <<wallet, mint>>)

update_keeps_amount(wallet, mint, new_amount) == TOKEN_AMOUNTS

update_token_amount(wallet, mint, new_amount) ==
    insert(TOKEN_AMOUNTS, <<wallet, mint>>, new_amount)

\* calculate_sell_amount: (percentage * amount as f64).round() as u64
calculate_sell_amount(wallet, mint, percentage) ==
    LET amount == get_token_amount(wallet, mint) IN
    IF amount = None THEN None
    ELSE Some(round_div(percentage * amount[1], 1000))

\* (settings.*_slippage_percent * 100.0) as u64: truncated, a negative value
\* cast to 0
slippage_bps(percent) == IF percent < 0 THEN 0 ELSE percent \div 10

\* 10_000 - slippage_bps in u64: above 10_000 bps the subtraction underflows,
\* which panics in a build with overflow checks and wraps around 2^64 in one
\* without; the result is then no value the model's integers hold
Underflowed == {[kind |-> "panic", value |-> 0], [kind |-> "wrapped", value |-> 0]}

\* build_buy_transaction: expected_tokens = lamports / 1000 and
\* min_amount_out = expected_tokens * (10_000 - slippage_bps) / 10_000 in u64
buy_min_amount_out(lamports, buy_slippage_percent) ==
    LET bps == slippage_bps(buy_slippage_percent)
        expected_tokens == lamports \div 1000
    IN  IF bps > 10000 THEN Underflowed
        ELSE {[kind |-> "value",
               value |-> (expected_tokens * (10000 - bps)) \div 10000]}

\* build_sell_transaction: base_min_sol * (10_000 - slippage_bps) as f64 /
\* 10_000.0, cast to u64
sell_min_amount_out(sell_min_sol_out, sell_slippage_percent) ==
    LET bps == slippage_bps(sell_slippage_percent) IN
    IF bps > 10000 THEN Underflowed
    ELSE {[kind |-> "value",
           value |-> (sell_min_sol_out * (10000 - bps)) \div 10000]}

\* the wrapped-native mint and the CPMM program
WSOL_MINT == "WSOL"
RAYDIUM_CPMM_PROGRAM_ID == "CPMMoo8L3F4NbTegBCKVNunggL7H1ZpdTHKxQB5qKP1C"

\* Pubkey::to_bytes, the leading two bytes of the 32: the wrapped-native mint
\* starts 0x06 0x9b; M3 and M4 share its first byte
to_bytes(key) ==
    CASE key = "M1" -> <<1, 7>>
      [] key = "M2" -> <<9, 0>>
      [] key = "M3" -> <<6, 3>>
      [] key = "M4" -> <<6, 200>>
      [] key = WSOL_MINT -> <<6, 155>>

\* [u8; N] < [u8; N]: the order of the first byte that differs
bytes_less(a, b) ==
    \E i \in 1..Len(a) :
        a[i] < b[i] /\ \A j \in 1..(i - 1) : a[j] = b[j]

\* u16::to_be_bytes
to_be_bytes(index) == <<index \div 256, index % 256>>

\* Pubkey::find_program_address: the address is a hash of the seeds and the
\* program id; the model keeps what was hashed
find_program_address(seeds, program_id) == <<"pda", seeds, program_id>>

derive_config_id(program_id, index) ==
    find_program_address(<<"amm_config", to_be_bytes(index)>>, program_id)
derive_pool_id(program_id, config_id, mint_a, mint_b) ==
    find_program_address(<<"pool", config_id, mint_a, mint_b>>, program_id)
derive_pool_authority(program_id) ==
    find_program_address(<<"vault_and_lp_mint_auth_seed">>, program_id)
derive_vault(program_id, pool_id, mint) ==
    find_program_address(<<"pool_vault", pool_id, mint>>, program_id)
derive_lp_mint(program_id, pool_id) ==
    find_program_address(<<"pool_lp_mint", pool_id>>, program_id)
derive_observation_id(program_id, pool_id) ==
    find_program_address(<<"observation", pool_id>>, program_id)

\* the body of the loop of derive_pool_keys_for_migrated_token for one
\* config_index, with the pair ordered as `before` says (mint_a < mint_b)
pool_keys(mint, config_index, before) ==
    LET program_id == RAYDIUM_CPMM_PROGRAM_ID
        config_id == derive_config_id(program_id, config_index)
        mint_a == IF before THEN mint ELSE WSOL_MINT
        mint_b == IF before THEN WSOL_MINT ELSE mint
        pool_id == derive_pool_id(program_id, config_id, mint_a, mint_b)
    IN  [pool_id |-> pool_id,
         base_mint |-> mint_a,
         quote_mint |-> mint_b,
         lp_mint |-> derive_lp_mint(program_id, pool_id),
         base_vault |-> derive_vault(program_id, pool_id, mint_a),
         quote_vault |-> derive_vault(program_id, pool_id, mint_b),
         authority |-> derive_pool_authority(program_id),
         config_id |-> config_id,
         observation_id |-> derive_observation_id(program_id, pool_id),
         base_decimals |-> IF mint_a = mint THEN 6 ELSE 9,
         quote_decimals |-> IF mint_b = mint THEN 6 ELSE 9]

\* a derivation that puts the mint first whatever its bytes
derive_pool_keys_mint_first(mint) ==
    [ok |-> TRUE, value |-> pool_keys(mint, 0, TRUE), err |-> ""]

\* derive_pool_keys_for_migrated_token: the loop over config_index 0..8
\* returns in the first pass whose index is 0
derive_pool_keys_for_migrated_token(mint) ==
    LET returning == {config_index \in 0..7 : config_index = 0}
        first == CHOOSE i \in returning : \A j \in returning : i <= j
    IN  IF returning # {}
        THEN [ok |-> TRUE,
              value |-> pool_keys(mint, first,
                            bytes_less(to_bytes(mint), to_bytes(WSOL_MINT))),
              err |-> ""]
        ELSE [ok |-> FALSE, value |-> <<>>,
              err |-> "Could not derive valid pool keys for migrated token"]

\* an instruction: the program's entry point, the account or mint it is
\* about, and the amount it carries
Ix(ix, about, amount) == [ix |-> ix, about |-> about, amount |-> amount]
create_associated_token_account_idempotent(mint) ==
    Ix("create_associated_token_account_idempotent", mint, 0)
system_transfer(to, lamports) == Ix("system_transfer", to, lamports)

\* build_swap_base_in_instruction: the ATA creations, the funding of the
\* wrapped-native input, the swap and the close of a wrapped-native output
build_swap_base_in_instruction(pool_info, amount_in, min_amount_out, is_buy) ==
    LET input_mint ==
            IF is_buy
            THEN IF pool_info.base_mint = WSOL_MINT
                 THEN pool_info.base_mint ELSE pool_info.quote_mint
            ELSE IF pool_info.base_mint = WSOL_MINT
                 THEN pool_info.quote_mint ELSE pool_info.base_mint
        output_mint ==
            IF is_buy
            THEN IF pool_info.base_mint = WSOL_MINT
                 THEN pool_info.quote_mint ELSE pool_info.base_mint
            ELSE IF pool_info.base_mint = WSOL_MINT
                 THEN pool_info.base_mint ELSE pool_info.quote_mint
    IN  (IF input_mint # WSOL_MINT
         THEN <<create_associated_token_account_idempotent(input_mint)>>
         ELSE <<>>)
        \o (IF output_mint # WSOL_MINT
            THEN <<create_associated_token_account_idempotent(output_mint)>>
            ELSE <<>>)
        \o (IF input_mint = WSOL_MINT /\ amount_in > 0
            THEN <<create_associated_token_account_idempotent(WSOL_MINT),
                   system_transfer("user_input_account", amount_in),
                   Ix("sync_native", "user_input_account", 0)>>
            ELSE <<>>)
        \o (IF output_mint = WSOL_MINT
            THEN <<create_associated_token_account_idempotent(WSOL_MINT)>>
            ELSE <<>>)
        \o <<Ix("swap_base_input", output_mint, amount_in)>>
        \o (IF output_mint = WSOL_MINT
            THEN <<Ix("close_account", "user_output_account", 0)>>
            ELSE <<>>)

\* (settings.*_bribe_sol * LAMPORTS_PER_SOL as f64) as u64, the bribe in tenths
\* of a lamport: truncated, a negative value cast to 0
tip_lamports(bribe_sol) == IF bribe_sol < 0 THEN 0 ELSE bribe_sol \div 10

\* the tip account: one of Jito's or one of Helius'
tip_to == IF slippage.jito THEN "jito_tip_account" ELSE "helius_tip_account"

\* all_instructions: vec![tip_ix] extended by the swap instructions
all_instructions(side, mint, amount, min_amount_out) ==
    <<system_transfer(tip_to,
                      tip_lamports(IF side = "Buy" THEN slippage.buy_bribe_sol
                                   ELSE slippage.sell_bribe_sol))>>
    \o build_swap_base_in_instruction(
           derive_pool_keys_for_migrated_token(mint).value,
                                      amount, min_amount_out, side = "Buy")

NoBuild == [side |-> "none", mint |-> "", amount |-> 0, min_amount_out |-> 0,
            current_amount |-> None, instructions |-> <<>>]
NoCalc == [mint |-> "", percentage |-> 0, cached |-> None, result |-> None]
NoQuote == [side |-> "none", input |-> 0, outcome |-> [kind |-> "none", value |-> 0]]

\* what the model hands the builders and calculate_sell_amount
BuyLamports == {1000, 5000}
SellAmounts == {0, 2, 5}
SellPercentages == {500, 1000}
\* the mint the builds trade; the other one is never cached
BuildMints == {"M1"}

\* a build that computed its minimum goes on to fetch the blockhash; one whose
\* subtraction underflowed is not followed further
Begun(t, side, mint, amount, o) ==
    /\ build_pc[t] = "idle"
    /\ IF o.kind = "value"
       THEN /\ build_pc' = [build_pc EXCEPT ![t] = "get_latest_blockhash"]
            /\ build' = [build EXCEPT ![t] =
                            [side |-> side, mint |-> mint, amount |-> amount,
                             min_amount_out |-> o.value, current_amount |-> None,
                             instructions |->
                                 all_instructions(side, mint, amount, o.value)]]
       ELSE /\ build_pc' = [build_pc EXCEPT ![t] = "aborted"]
            /\ UNCHANGED build
    /\ UNCHANGED <<TOKEN_AMOUNTS, calc, slippage, quote>>
    /\ UNCHANGED notTokens

\* RaydiumDex::build_buy_transaction up to the blockhash request
BuildBuyBegin(t, mint, lamports) ==
    \E o \in buy_min_amount_out(lamports, slippage.buy_slippage_percent) :
        Begun(t, "Buy", mint, lamports, o)

\* RaydiumDex::build_sell_transaction up to the blockhash request
BuildSellBegin(t, mint, token_amount) ==
    \E o \in sell_min_amount_out(slippage.sell_min_sol_out,
                                 slippage.sell_slippage_percent) :
        Begun(t, "Sell", mint, token_amount, o)

\* get_latest_blockhash()? returns the error: the build ends with Err
BuildBlockhashErr(t) ==
    /\ build_pc[t] = "get_latest_blockhash"
    /\ build_pc' = [build_pc EXCEPT ![t] = "failed"]
    /\ UNCHANGED <<TOKEN_AMOUNTS, build, calc, slippage, quote>>
    /\ UNCHANGED notTokens

\* buy: the transaction is signed and min_amount_out stored for (me, mint)
BuildBuyStore(t) ==
    /\ build_pc[t] = "get_latest_blockhash"
    /\ build[t].side = "Buy"
    /\ TOKEN_AMOUNTS' = store_token_amount(me, build[t].mint, build[t].min_amount_out)
    /\ build_pc' = [build_pc EXCEPT ![t] = "built"]
    /\ UNCHANGED <<build, calc, slippage, quote>>
    /\ UNCHANGED notTokens

\* sell: the transaction is signed and get_token_amount(me, mint) read
BuildSellGet(t) ==
    /\ build_pc[t] = "get_latest_blockhash"
    /\ build[t].side = "Sell"
    /\ build' = [build EXCEPT ![t].current_amount = get_token_amount(me, build[t].mint)]
    /\ build_pc' = [build_pc EXCEPT ![t] =
                       IF get_token_amount(me, build[t].mint) = None
                       THEN "built" ELSE "update"]
    /\ UNCHANGED <<TOKEN_AMOUNTS, calc, slippage, quote>>
    /\ UNCHANGED notTokens

\* sell: the entry is cleared or set to what remains, under a new lock
BuildSellUpdate(t) ==
    /\ build_pc[t] = "update"
    /\ LET token_amount == build[t].amount
           current_amount == build[t].current_amount[1]
       IN  TOKEN_AMOUNTS' =
               IF token_amount >= current_amount
               THEN clear_token_amount(me, build[t].mint)
               ELSE update_token_amount(me, build[t].mint,
                                        saturating_sub(current_amount, token_amount))
    /\ build_pc' = [build_pc EXCEPT ![t] = "built"]
    /\ UNCHANGED <<build, calc, slippage, quote>>
    /\ UNCHANGED notTokens

\* the build returns to its caller, which may start another one
BuildReturn(t) ==
    /\ build_pc[t] \in {"built", "failed"}
    /\ build_pc' = [build_pc EXCEPT ![t] = "idle"]
    /\ build' = [build EXCEPT ![t] = NoBuild]
    /\ UNCHANGED <<TOKEN_AMOUNTS, calc, slippage, quote>>
    /\ UNCHANGED notTokens

\* calculate_sell_amount(wallet, mint, percentage)
CalculateSellAmount(wallet, mint, percentage) ==
    /\ calc' = [mint |-> mint, percentage |-> percentage,
                cached |-> get_token_amount(wallet, mint),
                result |-> calculate_sell_amount(wallet, mint, percentage)]
    /\ UNCHANGED <<TOKEN_AMOUNTS, build_pc, build, slippage, quote>>
    /\ UNCHANGED notTokens

\* a builder computes the minimum for what it was handed
QuoteBuy(lamports) ==
    /\ \E o \in buy_min_amount_out(lamports, slippage.buy_slippage_percent) :
           quote' = [side |-> "Buy", input |-> lamports, outcome |-> o]
    /\ UNCHANGED <<TOKEN_AMOUNTS, build_pc, build, calc, slippage>>
    /\ UNCHANGED notTokens

QuoteSell ==
    /\ \E o \in sell_min_amount_out(slippage.sell_min_sol_out,
                                    slippage.sell_slippage_percent) :
           quote' = [side |-> "Sell", input |-> slippage.sell_min_sol_out,
                     outcome |-> o]
    /\ UNCHANGED <<TOKEN_AMOUNTS, build_pc, build, calc, slippage>>
    /\ UNCHANGED notTokens

\* no build has run and nothing is cached
TokensInit ==
    /\ TOKEN_AMOUNTS = <<>>
    /\ build_pc = [t \in Tasks |-> "idle"]
    /\ build = [t \in Tasks |-> NoBuild]
    /\ calc = NoCalc
    /\ slippage = <<>>
    /\ quote = NoQuote

TokensStep ==
    \/ \E t \in Tasks, m \in BuildMints, l \in BuyLamports : BuildBuyBegin(t, m, l)
    \/ \E t \in Tasks, m \in BuildMints, a \in SellAmounts : BuildSellBegin(t, m, a)
    \/ \E t \in Tasks : BuildBlockhashErr(t)
    \/ \E t \in Tasks : BuildBuyStore(t)
    \/ \E t \in Tasks : BuildSellGet(t)
    \/ \E t \in Tasks : BuildSellUpdate(t)
    \/ \E t \in Tasks : BuildReturn(t)
    \/ \E m \in Mints, p \in SellPercentages : CalculateSellAmount(me, m, p)

\* slippage settings within 100 %, and all the model draws
SlippagePercents == {-1000, 0, 500, 1000, 1005, 2000, 50000, 100000, 150000}
SellFloors == {0, 3, 10000}
QuoteLamports == {0, 999, 1000, 3000, 3000000}
\* the default tip of 0.0001 SOL, in tenths of a lamport
DefaultBribes == {1000000}
TokenSlippage ==
    [buy_slippage_percent : {0, 50000}, sell_slippage_percent : {500},
     sell_min_sol_out : {10000},
     buy_bribe_sol : DefaultBribes, sell_bribe_sol : DefaultBribes,
     jito : {TRUE}]
AllSlippage ==
    [buy_slippage_percent : SlippagePercents,
     sell_slippage_percent : SlippagePercents,
     sell_min_sol_out : SellFloors,
     buy_bribe_sol : DefaultBribes, sell_bribe_sol : DefaultBribes,
     jito : {TRUE}]

\* the builds of one task over both mints, under each tip setting: bribes of
\* 0, 0.5, 500, 1000 and 100000 lamports
Bribes == {0, 5, 5000, 10000, 1000000}
AssembleSettings ==
    [buy_slippage_percent : {500}, sell_slippage_percent : {500},
     sell_min_sol_out : {10000},
     buy_bribe_sol : Bribes, sell_bribe_sol : Bribes, jito : BOOLEAN]
AssembleLamports == {0, 5000}
AssembleAmounts == {0, 5}
AssembleStep ==
    \/ \E m \in Mints, l \in AssembleLamports : BuildBuyBegin("t1", m, l)
    \/ \E m \in Mints, a \in AssembleAmounts : BuildSellBegin("t1", m, a)
    \/ BuildBlockhashErr("t1")
    \/ BuildBuyStore("t1")
    \/ BuildSellGet("t1")
    \/ BuildSellUpdate("t1")
    \/ BuildReturn("t1")

SlippageStep ==
    \/ \E l \in QuoteLamports : QuoteBuy(l)
    \/ QuoteSell
----------------------------------------------------------------------------
(***************************************************************************)
(* dex/raydium.rs: calculate_swap_amount, the constant-product quote in    *)
(* checked u64 arithmetic.  A u64 is a little-endian sequence of limbs     *)
(* below Limb without leading zero limbs (0 is <<>>, 10^9 is <<0,0,0,1>>), *)
(* so that products beyond 2^64 are computed and compared exactly.         *)
(***************************************************************************)
Limb == 1000

RECURSIVE to_limbs(_)
to_limbs(n) == IF n = 0 THEN <<>> ELSE <<n % Limb>> \o to_limbs(n \div Limb)

RECURSIVE trim(_)
trim(a) ==
    IF a # <<>> /\ a[Len(a)] = 0 THEN trim(SubSeq(a, 1, Len(a) - 1)) ELSE a

limb(a, i) == IF i <= Len(a) THEN a[i] ELSE 0

\* a + b from limb i on, c carried in
RECURSIVE add_from(_, _, _, _)
add_from(a, b, i, c) ==
    IF i > Len(a) /\ i > Len(b) THEN to_limbs(c)
    ELSE LET s == limb(a, i) + limb(b, i) + c
         IN  <<s % Limb>> \o add_from(a, b, i + 1, s \div Limb)

big_add(a, b) == trim(add_from(a, b, 1, 0))

\* a * k for a k of at most 10^6, from limb i on, c carried in
RECURSIVE scale_from(_, _, _, _)
scale_from(a, k, i, c) ==
    IF i > Len(a) THEN to_limbs(c)
    ELSE LET p == a[i] * k + c
         IN  <<p % Limb>> \o scale_from(a, k, i + 1, p \div Limb)

big_scale(a, k) == trim(scale_from(a, k, 1, 0))

\* a * (the limbs of b from i on)
RECURSIVE mul_from(_, _, _)
mul_from(a, b, i) ==
    IF i > Len(b) THEN <<>>
    ELSE big_add(big_scale(a, b[i]), <<0>> \o mul_from(a, b, i + 1))

big_mul(a, b) == mul_from(a, b, 1)

\* a < b for a and b of one length, decided from limb i downwards
RECURSIVE less_from(_, _, _)
less_from(a, b, i) ==
    IF i = 0 THEN FALSE
    ELSE IF a[i] # b[i] THEN a[i] < b[i] ELSE less_from(a, b, i - 1)

big_less(a, b) ==
    IF Len(a) # Len(b) THEN Len(a) < Len(b) ELSE less_from(a, b, Len(a))

\* a - b for a >= b
RECURSIVE sub_from(_, _, _, _)
sub_from(a, b, i, borrow) ==
    IF i > Len(a) THEN <<>>
    ELSE LET d == a[i] - limb(b, i) - borrow
         IN  IF d < 0 THEN <<d + Limb>> \o sub_from(a, b, i + 1, 1)
             ELSE <<d>> \o sub_from(a, b, i + 1, 0)

big_sub(a, b) == trim(sub_from(a, b, 1, 0))

\* the largest k in lo..hi with d * k <= r
RECURSIVE quotient_limb(_, _, _, _)
quotient_limb(r, d, lo, hi) ==
    IF lo = hi THEN lo
    ELSE LET mid == (lo + hi + 1) \div 2
         IN  IF big_less(r, big_scale(d, mid))
             THEN quotient_limb(r, d, lo, mid - 1)
             ELSE quotient_limb(r, d, mid, hi)

\* long division of n by d # 0 from limb i downwards, r the remainder so far
RECURSIVE div_from(_, _, _, _)
div_from(n, d, i, r) ==
    IF i = 0 THEN <<>>
    ELSE LET r1 == trim(<<n[i]>> \o r)
             k == quotient_limb(r1, d, 0, Limb - 1)
         IN  div_from(n, d, i - 1, big_sub(r1, big_scale(d, k))) \o <<k>>

big_div(n, d) == trim(div_from(n, d, Len(n), <<>>))

\* u64::MAX = 18,446,744,073,709,551,615
U64_MAX == <<615, 551, 709, 73, 744, 446, 18>>

checked_mul(a, b) ==
    IF big_less(U64_MAX, big_mul(a, b)) THEN None ELSE Some(big_mul(a, b))

checked_add(a, b) ==
    IF big_less(U64_MAX, big_add(a, b)) THEN None ELSE Some(big_add(a, b))

checked_div(a, b) == IF b = <<>> THEN None ELSE Some(big_div(a, b))

Ok(v) == [ok |-> TRUE, value |-> v, err |-> ""]
Err(e) == [ok |-> FALSE, value |-> <<>>, err |-> e]

fee_rate == to_limbs(2500)
fee_denominator == to_limbs(1000000)

calculate_swap_amount(reserve_in, reserve_out, amount_in) ==
    LET amount_in_with_fee ==
            checked_mul(amount_in, big_sub(fee_denominator, fee_rate))
        numerator == checked_mul(amount_in_with_fee[1], reserve_out)
        scaled_reserve == checked_mul(reserve_in, fee_denominator)
        denominator == checked_add(scaled_reserve[1], amount_in_with_fee[1])
        output_amount == checked_div(numerator[1], denominator[1])
    IN  IF reserve_in = <<>> \/ reserve_out = <<>>
        THEN Err("Invalid pool reserves")
        ELSE IF amount_in_with_fee = None
        THEN Err("Overflow in fee calculation")
        ELSE IF numerator = None
        THEN Err("Overflow in numerator calculation")
        ELSE IF scaled_reserve = None
        THEN Err("Overflow in denominator calculation")
        ELSE IF denominator = None
        THEN Err("Overflow in denominator addition")
        ELSE IF output_amount = None
        THEN Err("Division by zero in swap calculation")
        ELSE Ok(output_amount[1])

\* the amounts the model hands the quote: m * 1000^k; they include the
\* test's 10^9 and 10^12
MaxThousands == 4
SwapMantissas == {0, 1, 19}
SwapAmounts ==
    {trim([i \in 1..k |-> 0] \o to_limbs(m)) :
        m \in SwapMantissas, k \in 0..MaxThousands}

NoSwap == [called |-> FALSE, reserve_in |-> <<>>, reserve_out |-> <<>>,
           amount_in |-> <<>>, result |-> Err("")]

\* one quote is followed: the call and what it returned
CalculateSwapAmount(reserve_in, reserve_out, amount_in) ==
    /\ ~swap.called
    /\ swap' = [called |-> TRUE, reserve_in |-> reserve_in,
                reserve_out |-> reserve_out, amount_in |-> amount_in,
                result |-> calculate_swap_amount(reserve_in, reserve_out,
                                                 amount_in)]
    /\ UNCHANGED notSwap

SwapInit == swap = NoSwap

SwapStep ==
    \E reserve_in \in SwapAmounts, reserve_out \in SwapAmounts,
       amount_in \in SwapAmounts :
        CalculateSwapAmount(reserve_in, reserve_out, amount_in)

----------------------------------------------------------------------------
(***************************************************************************)
(* jito/bundle_builder.rs and jito/wrapper.rs: the two-transaction bundle. *)
(* The bribes and priority fees of Settings are in tenths of a lamport.    *)
(***************************************************************************)
\* TIP_ACCOUNTS: the eight tip accounts, by their index
TIP_ACCOUNTS == {"tip0", "tip1", "tip2", "tip3", "tip4", "tip5", "tip6", "tip7"}

\* base64::encode(bincode::serialize(tx)) and serde_json::to_string
base64_encode(tx) == <<"base64", tx>>
to_json_string(v) == <<"json", v>>

max(a, b) == IF a >= b THEN a ELSE b

\* the pair of the buy settings, whatever the side
bribe_and_priority_fee_of_buy(side) ==
    <<tips.buy_bribe_sol, tips.buy_priority_fee_sol>>

\* (bribe_sol, priority_fee_sol) by side
bribe_and_priority_fee(side) ==
    IF side = "Buy"
    THEN <<tips.buy_bribe_sol, tips.buy_priority_fee_sol>>
    ELSE <<tips.sell_bribe_sol, tips.sell_priority_fee_sol>>

\* build_tip_only_tx: one transfer under the blockhash the RPC returned, or
\* the RPC's error
build_tip_only_tx(to, lamports, blockhash) ==
    IF blockhash = "err" THEN Err("get_latest_blockhash")
    ELSE Ok([instructions |-> <<system_transfer(to, lamports)>>,
             recent_blockhash |-> blockhash])

build_jito_bundle(main_tx, side, tip_account, blockhash) ==
    LET total_tip_lamports ==
            sol_to_lamports(bribe_and_priority_fee(side)[1]
                            + bribe_and_priority_fee(side)[2])
        bundle_tip_lamports == max(total_tip_lamports, 1000)
        tip_tx == build_tip_only_tx(tip_account, bundle_tip_lamports, blockhash)
    IN  IF ~tip_tx.ok THEN Err(tip_tx.err)
        ELSE Ok(to_json_string(<<base64_encode(main_tx),
                                 base64_encode(tip_tx.value)>>))

\* the main transactions handed in, and what get_latest_blockhash answers
MainTxs == {"tx1", "tx2"}
Blockhashes == {"bh1", "err"}

\* bribes of 0, 1000 and 100000 lamports with fees of 0, 0.4, 0.5 and 100000
\* lamports for buys; smaller ones for sells
TipSettings ==
    [buy_bribe_sol : {0, 10000, 1000000},
     buy_priority_fee_sol : {0, 4, 5, 1000000},
     sell_bribe_sol : {0, 20000},
     sell_priority_fee_sol : {0, 5}]

NoBundle == [called |-> FALSE, main_tx |-> "", side |-> "", blockhash |-> "",
             result |-> Err("")]

BuildJitoBundle(main_tx, side) ==
    /\ \E tip_account \in TIP_ACCOUNTS, blockhash \in Blockhashes :
           bundle' = [called |-> TRUE, main_tx |-> main_tx, side |-> side,
                      blockhash |-> blockhash,
                      result |-> build_jito_bundle(main_tx, side, tip_account,
                                                   blockhash)]
    /\ UNCHANGED tips
    /\ UNCHANGED notBundle

BundleInit ==
    /\ tips = <<>>
    /\ bundle = NoBundle

BundleStep == \E main_tx \in MainTxs, side \in Side : BuildJitoBundle(main_tx, side)

----------------------------------------------------------------------------
(***************************************************************************)
(* submit/mod.rs and submit/helius_fast.rs: the submitter default()        *)
(* returns and HeliusFast::submit.  HybridSubmitter (submit/hybrid.rs) is  *)
(* modelled from its description: the bundle first, the fast path when the *)
(* bundle attempt returned an error.                                       *)
(***************************************************************************)
\* an error where the value is a signature
Failed(e) == [ok |-> FALSE, value |-> "", err |-> e]

\* the constructor that answers every flag with the other submitter
default_swapped(jito_enabled) ==
    [kind |-> IF jito_enabled THEN "HeliusFast" ELSE "HybridSubmitter",
     jito_enabled |-> jito_enabled]

\* submit::default: the submitter by the jito flag
default(jito_enabled) ==
    [kind |-> IF jito_enabled THEN "HybridSubmitter" ELSE "HeliusFast",
     jito_enabled |-> jito_enabled]

\* a request body that passes the caller's skip_preflight on
HeliusFast_body_passes_skip(tx_b64, skip) ==
    [url |-> "relayer_url", method |-> "sendTransaction", tx |-> tx_b64,
     encoding |-> "base64", skipPreflight |-> skip, maxRetries |-> 0]

\* the JSON-RPC body of HeliusFast::submit, posted to self.url
HeliusFast_body(tx_b64, skip) ==
    [url |-> "relayer_url", method |-> "sendTransaction", tx |-> tx_b64,
     encoding |-> "base64", skipPreflight |-> TRUE, maxRetries |-> 0]

\* StatusCode::is_success
is_success(status) == 200 <= status /\ status <= 299

\* what a POST meets: a transport error or timeout (send().await? fails), or
\* a status and a body; a body is JSON or not, and a JSON body carries a
\* `result` or not, a string or some other value
Bodies ==
    {[json |-> FALSE, has_result |-> FALSE, result_is_str |-> FALSE, result |-> ""],
     [json |-> TRUE, has_result |-> FALSE, result_is_str |-> FALSE, result |-> ""],
     [json |-> TRUE, has_result |-> TRUE, result_is_str |-> FALSE, result |-> ""],
     [json |-> TRUE, has_result |-> TRUE, result_is_str |-> TRUE, result |-> "SIG"]}
NoBody == [json |-> FALSE, has_result |-> FALSE, result_is_str |-> FALSE, result |-> ""]
Statuses == {200, 204, 404, 500}
Responses ==
    [transport : {"ok"}, status : Statuses, body : Bodies]
    \cup [transport : {"timeout", "error"}, status : {0}, body : {NoBody}]

\* HeliusFast::submit: one POST, and the signature its answer carries
HeliusFast_submit(tx_b64, skip, response) ==
    [posts |-> <<HeliusFast_body(tx_b64, skip)>>,
     result |->
         IF response.transport # "ok" THEN Failed(response.transport)
         ELSE IF ~is_success(response.status) THEN Failed("Helius FAST HTTP")
         ELSE IF ~response.body.json THEN Failed("error decoding response body")
         ELSE IF ~(response.body.has_result /\ response.body.result_is_str)
         THEN Failed("Missing 'result' in response")
         ELSE Ok(response.body.result)]

\* what the bundle attempt of the hybrid submitter returns
BundleOutcomes == {Ok("BUNDLE_SIG"), Failed("Jito HTTP 500"), Failed("timeout")}
bundle_post(tx_b64) ==
    [url |-> "jito_bundle_url", method |-> "sendBundle", tx |-> tx_b64,
     encoding |-> "base64", skipPreflight |-> TRUE, maxRetries |-> 0]

\* HybridSubmitter::submit: the bundle attempt, and on its error the fast path
HybridSubmitter_submit(tx_b64, skip, bundle_outcome, response) ==
    IF bundle_outcome.ok
    THEN [posts |-> <<bundle_post(tx_b64)>>, result |-> bundle_outcome]
    ELSE [posts |-> <<bundle_post(tx_b64)>>
                    \o HeliusFast_submit(tx_b64, skip, response).posts,
          result |-> HeliusFast_submit(tx_b64, skip, response).result]

TxPayloads == {"tx1_b64", "tx2_b64"}
NoSubmitter == [kind |-> "none", jito_enabled |-> FALSE]
NoSubmit == [called |-> FALSE, tx_b64 |-> "", skip |-> FALSE,
             bundle_outcome |-> Failed(""),
             response |-> [transport |-> "", status |-> 0, body |-> NoBody],
             posts |-> <<>>, result |-> Failed("")]

\* the process constructs its submitter once, at start-up
Default(jito_enabled) ==
    /\ submitter = NoSubmitter
    /\ submitter' = default(jito_enabled)
    /\ UNCHANGED submitted
    /\ UNCHANGED notSubmit

\* submitter.submit(payload_b64, skip_preflight), dispatched on the submitter
Submit(tx_b64, skip) ==
    /\ submitter # NoSubmitter
    /\ \E bundle_outcome \in BundleOutcomes, response \in Responses :
           LET done == IF submitter.kind = "HybridSubmitter"
                       THEN HybridSubmitter_submit(tx_b64, skip,
                                                   bundle_outcome, response)
                       ELSE HeliusFast_submit(tx_b64, skip, response)
           IN  submitted' = [called |-> TRUE, tx_b64 |-> tx_b64, skip |-> skip,
                             bundle_outcome |-> bundle_outcome,
                             response |-> response,
                             posts |-> done.posts, result |-> done.result]
    /\ UNCHANGED submitter
    /\ UNCHANGED notSubmit

SubmitInit ==
    /\ submitter = NoSubmitter
    /\ submitted = NoSubmit

SubmitStep ==
    \/ \E jito_enabled \in BOOLEAN : Default(jito_enabled)
    \/ \E tx_b64 \in TxPayloads, skip \in BOOLEAN : Submit(tx_b64, skip)

----------------------------------------------------------------------------
(***************************************************************************)
(* dex/router.rs and dex/mod.rs: the program-id table, route_transaction   *)
(* and build_tx_from_plan.  The venue builders other than RaydiumDex, the  *)
(* venue detection and the pool_tracker caches have no code under src/:    *)
(* a builder is what it returns (Ok or Err), the detection is the venue it *)
(* reports, a cache is a map read by its getter.                           *)
(***************************************************************************)
PUMPFUN_PROGRAM_ID == "6EF8rrecthR5Dkzon8Nwu78hRvfCKubJ14M5uBEwF6P"
PUMP_AMM_PROGRAM_ID == "pAMMBay6oceH9fJKBRHGP5D4bD4sWpmSwMn52FMfXEA"
MOONSHOT_PROGRAM_ID == "MoonCVVNZFSYkqNXP6bxHLPL6QQJiMagDL3qcqUQTrG"
RAYDIUM_LAUNCHPAD_PROGRAM_ID == "LanMV9sAd7wArD4vJFi2qDdfnVhFxYSUg6eADduJ3uj"
METEORA_DLMM_PROGRAM_ID == "LBUZKhRxPF3XUpBCjp4YzTKgLccjZhTSDM9YuVaPwxo"
MERCURIAL_DYNAMIC_AMM_PROGRAM_ID == "Eo7WjKq67rjJQSZxS6z3YkapzY3eMj6Xy8X5EQVn5UaB"

identify_dex_by_program_id(program_id) ==
    CASE program_id = PUMPFUN_PROGRAM_ID -> Some("Pumpfun")
      [] program_id = PUMP_AMM_PROGRAM_ID -> Some("PumpSwap")
      [] program_id = MOONSHOT_PROGRAM_ID -> Some("Moonshot")
      [] program_id = RAYDIUM_CPMM_PROGRAM_ID -> Some("Raydium")
      [] program_id = RAYDIUM_LAUNCHPAD_PROGRAM_ID -> Some("RaydiumLaunchpad")
      [] program_id = METEORA_DLMM_PROGRAM_ID -> Some("Meteora")
      [] program_id = MERCURIAL_DYNAMIC_AMM_PROGRAM_ID -> Some("Meteora")
      [] OTHER -> None

\* the list without its last entry
get_all_program_ids_short ==
    <<PUMPFUN_PROGRAM_ID, PUMP_AMM_PROGRAM_ID, MOONSHOT_PROGRAM_ID,
      RAYDIUM_CPMM_PROGRAM_ID, RAYDIUM_LAUNCHPAD_PROGRAM_ID,
      METEORA_DLMM_PROGRAM_ID>>

get_all_program_ids ==
    <<PUMPFUN_PROGRAM_ID, PUMP_AMM_PROGRAM_ID, MOONSHOT_PROGRAM_ID,
      RAYDIUM_CPMM_PROGRAM_ID, RAYDIUM_LAUNCHPAD_PROGRAM_ID,
      METEORA_DLMM_PROGRAM_ID, MERCURIAL_DYNAMIC_AMM_PROGRAM_ID>>

\* the loop of identify_dex_by_program_ids from entry i on
RECURSIVE identify_from(_, _)
identify_from(program_ids, i) ==
    IF i > Len(program_ids) THEN None
    ELSE IF identify_dex_by_program_id(program_ids[i]) # None
         THEN identify_dex_by_program_id(program_ids[i])
         ELSE identify_from(program_ids, i + 1)

identify_dex_by_program_ids(program_ids) == identify_from(program_ids, 1)

is_known_dex_program_id(program_id) ==
    identify_dex_by_program_id(program_id) # None

get_dex_name_by_program_id(program_id) ==
    CASE program_id = PUMPFUN_PROGRAM_ID -> Some("PumpFun")
      [] program_id = PUMP_AMM_PROGRAM_ID -> Some("PumpSwap AMM")
      [] program_id = MOONSHOT_PROGRAM_ID -> Some("Moonshot")
      [] program_id = RAYDIUM_CPMM_PROGRAM_ID -> Some("Raydium CPMM")
      [] program_id = RAYDIUM_LAUNCHPAD_PROGRAM_ID -> Some("Raydium Launchpad")
      [] program_id = METEORA_DLMM_PROGRAM_ID -> Some("Meteora DLMM")
      [] program_id = MERCURIAL_DYNAMIC_AMM_PROGRAM_ID -> Some("Mercurial Dynamic AMM")
      [] OTHER -> None

\* the program ids a tracked transaction may invoke: the seven of the table,
\* the system program and the compute-budget program
MaxProgramIds == 3
ProgramIds ==
    {get_all_program_ids[i] : i \in 1..Len(get_all_program_ids)}
    \cup {"11111111111111111111111111111111",
          "ComputeBudget111111111111111111111111111111"}
ProgramIdLists == UNION {[1..n -> ProgramIds] : n \in 0..MaxProgramIds}

NoIdentified == [called |-> FALSE, program_ids |-> <<>>, detected_dex |-> None]

\* the classifier hands the program ids of one transaction to the router
IdentifyDexByProgramIds(program_ids) ==
    /\ ~identified.called
    /\ identified' = [called |-> TRUE, program_ids |-> program_ids,
                      detected_dex |-> identify_dex_by_program_ids(program_ids)]
    /\ UNCHANGED <<planned, pump_swap_coin_creators, pumpfun_constants, routed>>
    /\ UNCHANGED notRouter
    /\ UNCHANGED engineVars

IdentifyStep == \E program_ids \in ProgramIdLists : IdentifyDexByProgramIds(program_ids)

\* (known_amount as f64 * pct) as u64, pct in thousandths
sell_token_amount(known_amount, pct) == (known_amount * pct) \div 1000

\* what pool_tracker::detect_dex_type may report
DexType == {"Pumpfun", "Moonshot", "PumpSwap", "Raydium"}

\* a transaction, by the builder that built it
Tx(venue, side, mint, amount) ==
    [venue |-> venue, side |-> side, mint |-> mint, amount |-> amount]
NoTx == Tx("", "", "", 0)
Built(tx, token_amount) == [ok |-> TRUE, tx |-> tx, token_amount |-> token_amount, err |-> ""]
NotBuilt(e) == [ok |-> FALSE, tx |-> NoTx, token_amount |-> None, err |-> e]

\* the sell percentage checks every sell arm begins with; "" when they pass
sell_pct_error(plan) ==
    IF plan.sell_pct = None THEN "TradePlan for SELL is missing sell_pct"
    ELSE IF plan.sell_pct[1] <= 0 THEN "Sell percent must be > 0.0"
    ELSE ""

\* the fallback of the Pumpfun arms: one detection, and a Moonshot rebuild
retry_after_detection(plan, actual_dex, retry) ==
    IF actual_dex = "Moonshot"
    THEN IF plan.side = "Buy"
         THEN [builds |-> <<"Pumpfun", "Moonshot">>, detections |-> 1,
               result |-> IF retry = "err" THEN NotBuilt("Moonshot")
                          ELSE Built(Tx("Moonshot", "Buy", plan.mint,
                                        plan.buy_lamports), None)]
         ELSE IF plan.known_token_amount = None
         THEN [builds |-> <<"Pumpfun">>, detections |-> 1,
               result |-> NotBuilt("Moonshot SELL requires known_token_amount")]
         ELSE [builds |-> <<"Pumpfun", "Moonshot">>, detections |-> 1,
               result |-> IF retry = "err" THEN NotBuilt("Moonshot")
                          ELSE Built(Tx("Moonshot", "Sell", plan.mint,
                                        sell_token_amount(plan.known_token_amount[1],
                                                          plan.sell_pct[1])),
                                     None)]
    ELSE [builds |-> <<"Pumpfun">>, detections |-> 1,
          result |-> NotBuilt("Token has migrated - use local RPC submitter instead")]

\* build_tx_from_plan: first the outcome of the venue's builder, actual_dex
\* what detect_dex_type reports, retry the outcome of the rebuild
build_tx_from_plan(plan, first, actual_dex, retry) ==
    LET direct(venue, amount, token_amount) ==
            [builds |-> <<venue>>, detections |-> 0,
             result |-> IF first = "err" THEN NotBuilt(venue)
                        ELSE Built(Tx(venue, plan.side, plan.mint, amount),
                                   token_amount)]
        refused(e) == [builds |-> <<>>, detections |-> 0, result |-> NotBuilt(e)]
    IN  CASE plan.dex = "Pumpfun" ->
                IF plan.side = "Sell" /\ sell_pct_error(plan) # ""
                THEN refused(sell_pct_error(plan))
                ELSE IF first = "ok"
                THEN IF plan.side = "Buy"
                     THEN direct("Pumpfun", plan.buy_lamports, Some(1))
                     ELSE direct("Pumpfun", 0, None)
                ELSE retry_after_detection(plan, actual_dex, retry)
          [] plan.dex \in {"Moonshot", "RaydiumLaunchpad"} ->
                IF plan.side = "Buy"
                THEN direct(plan.dex, plan.buy_lamports, None)
                ELSE IF sell_pct_error(plan) # ""
                THEN refused(sell_pct_error(plan))
                ELSE IF plan.known_token_amount = None
                THEN refused("SELL requires known_token_amount")
                ELSE direct(plan.dex,
                            sell_token_amount(plan.known_token_amount[1],
                                              plan.sell_pct[1]), None)
          [] OTHER ->
                refused("should be handled directly via local RPC submitter")

\* the plans handed in: a buy of 5000 lamports, or a sell of 0 %, 50 % or of
\* no percentage, of a known 4 tokens or of no known amount
Plans ==
    {TradePlan_buy(dex, "M1", 5000) : dex \in DexKind}
    \cup [dex : DexKind, side : {"Sell"}, mint : {"M1"}, buy_lamports : {0},
          sell_pct : {None, Some(0), Some(500)},
          known_token_amount : {None, Some(4)},
          calculated_token_amount : {None}]
BuilderOutcomes == {"ok", "err"}

NoPlanned == [called |-> FALSE, plan |-> TradePlan_buy("Pumpfun", "", 0),
              first |-> "", actual_dex |-> "", retry |-> "", builds |-> <<>>,
              detections |-> 0, result |-> NotBuilt("")]

BuildTxFromPlan(plan) ==
    /\ \E first \in BuilderOutcomes, actual_dex \in DexType,
          retry \in BuilderOutcomes :
           LET done == build_tx_from_plan(plan, first, actual_dex, retry)
           IN  planned' = [called |-> TRUE, plan |-> plan, first |-> first,
                           actual_dex |-> actual_dex, retry |-> retry,
                           builds |-> done.builds,
                           detections |-> done.detections,
                           result |-> done.result]
    /\ UNCHANGED <<identified, pump_swap_coin_creators, pumpfun_constants, routed>>
    /\ UNCHANGED notRouter
    /\ UNCHANGED engineVars

PlanStep == \E plan \in Plans : BuildTxFromPlan(plan)

\* the amounts a sell plan is completed with, and the sells the engine is
\* handed before its plans are built
KnownAmounts == {1, 4}
EmittedFills ==
    {f \in Fills : /\ f.side = "Sell" /\ f.mint = "M1" /\ f.wallet_label = "A"
                   /\ f.cost_lamports = 0}

\* a Sell plan of StrategyEngine::on_fill, given its known_token_amount, is
\* handed to build_tx_from_plan
BuildEmittedPlan(i, known_amount) ==
    /\ ~planned.called
    /\ i \in 1..Len(plans)
    /\ plans[i].side = "Sell"
    /\ \E first \in BuilderOutcomes, actual_dex \in DexType,
          retry \in BuilderOutcomes :
           LET plan == [plans[i] EXCEPT !.known_token_amount = Some(known_amount)]
               done == build_tx_from_plan(plan, first, actual_dex, retry)
           IN  planned' = [called |-> TRUE, plan |-> plan, first |-> first,
                           actual_dex |-> actual_dex, retry |-> retry,
                           builds |-> done.builds,
                           detections |-> done.detections,
                           result |-> done.result]
    /\ UNCHANGED <<identified, pump_swap_coin_creators, pumpfun_constants, routed>>
    /\ UNCHANGED notRouter
    /\ UNCHANGED engineVars

EmittedStep ==
    \/ \E f \in EmittedFills : OnFill(f)
    \/ \E i \in 1..2, n \in KnownAmounts : BuildEmittedPlan(i, n)

\* pool_tracker::get_pump_swap_coin_creator and get_pumpfun_constants
get_pump_swap_coin_creator(mint) ==
    IF mint \in DOMAIN pump_swap_coin_creators
    THEN Some(pump_swap_coin_creators[mint]) ELSE None

get_pumpfun_constants(mint) ==
    IF mint \in DOMAIN pumpfun_constants
    THEN Some(pumpfun_constants[mint]) ELSE None

\* a lookup that asks the pumpfun constants first
coin_creator_constants_first(mint) ==
    IF get_pumpfun_constants(mint) # None
    THEN Some(get_pumpfun_constants(mint)[1].creator)
    ELSE get_pump_swap_coin_creator(mint)

\* the coin_creator of the PumpSwap arms: the cached creator, else the
\* creator of the cached constants, else none
coin_creator(mint) ==
    IF get_pump_swap_coin_creator(mint) # None
    THEN get_pump_swap_coin_creator(mint)
    ELSE IF get_pumpfun_constants(mint) # None
    THEN Some(get_pumpfun_constants(mint)[1].creator)
    ELSE None

\* what TOKEN_AMOUNTS holds after a RaydiumDex build that got its blockhash
raydium_token_amounts(mint, side, amount) ==
    IF side = "Buy"
    THEN store_token_amount(me, mint,
             (CHOOSE o \in buy_min_amount_out(amount, slippage.buy_slippage_percent) :
                  TRUE).value)
    ELSE IF get_token_amount(me, mint) = None THEN TOKEN_AMOUNTS
    ELSE IF amount >= get_token_amount(me, mint)[1]
    THEN clear_token_amount(me, mint)
    ELSE update_token_amount(me, mint,
                             saturating_sub(get_token_amount(me, mint)[1], amount))

\* route_transaction: outcome is what the venue's builder returns
route_transaction(mint, side, amount, detected_dex, outcome) ==
    LET dex_kind == IF detected_dex = None THEN "Pumpfun" ELSE detected_dex[1]
        built == [dex_kind |-> dex_kind, coin_creator |-> None,
                  builds |-> <<dex_kind>>, rpc_lookups |-> 1,
                  result |-> IF outcome = "err" THEN NotBuilt(dex_kind)
                             ELSE Built(Tx(dex_kind, side, mint, amount),
                                        IF side = "Buy" THEN Some(amount)
                                        ELSE Some(0)),
                  tokens |-> IF dex_kind = "Raydium" /\ outcome = "ok"
                             THEN raydium_token_amounts(mint, side, amount)
                             ELSE TOKEN_AMOUNTS]
    IN  IF dex_kind # "PumpSwap" THEN built
        ELSE IF coin_creator(mint) = None
        THEN [dex_kind |-> dex_kind, coin_creator |-> None, builds |-> <<>>,
              rpc_lookups |-> 0,
              result |-> NotBuilt("No cached coin_creator found for PumpSwap"),
              tokens |-> TOKEN_AMOUNTS]
        ELSE [built EXCEPT !.coin_creator = coin_creator(mint)]

RouteAmounts == {0, 5000}
DetectedDex == {None} \cup {Some(dex) : dex \in DexKind}
\* the caches as the classifier may have left them: M1 seen or not, M2 never
CoinCreators == {<<>>, [m \in {"M1"} |-> "creatorA"]}
PumpfunConstants == {<<>>, [m \in {"M1"} |-> [creator |-> "creatorB"]]}

NoRouted == [called |-> FALSE, mint |-> "", side |-> "", amount |-> 0,
             dex_kind |-> "", coin_creator |-> None, builds |-> <<>>,
             rpc_lookups |-> 0, result |-> NotBuilt("")]

RouteTransaction(mint, side, amount, detected_dex) ==
    /\ slippage_bps(slippage.buy_slippage_percent) <= 10000
    /\ \E outcome \in BuilderOutcomes :
           LET done == route_transaction(mint, side, amount, detected_dex, outcome)
           IN  /\ routed' = [called |-> TRUE, mint |-> mint, side |-> side,
                             amount |-> amount, dex_kind |-> done.dex_kind,
                             coin_creator |-> done.coin_creator,
                             builds |-> done.builds,
                             rpc_lookups |-> done.rpc_lookups,
                             result |-> done.result]
               /\ TOKEN_AMOUNTS' = done.tokens
    /\ UNCHANGED <<identified, planned, pump_swap_coin_creators, pumpfun_constants>>
    /\ UNCHANGED <<build_pc, build, calc, slippage, quote>>
    /\ UNCHANGED <<dedupeVars, positionVars, strategyVars>>
    /\ UNCHANGED notRouter

RouteStep ==
    \E mint \in Mints, side \in Side, amount \in RouteAmounts,
       detected_dex \in DetectedDex :
        RouteTransaction(mint, side, amount, detected_dex)

RouterInit ==
    /\ identified = NoIdentified
    /\ planned = NoPlanned
    /\ pump_swap_coin_creators = <<>>
    /\ pumpfun_constants = <<>>
    /\ routed = NoRouted

----------------------------------------------------------------------------
(* utils/transaction_cache.rs: the cache of pre-built transactions *)
\* how many of the sampled readings the monotonic clock runs through
MaxReadings == 4

\* readings of Instant::now() (ms) the model samples: their differences lie on
\* both sides of the ages 30 s and 60 s
Reading == <<0, 30000, 59999, 60000, 90000, 120000>>
CacheInstants == {Reading[i] : i \in 1..MaxReadings}

\* Duration::as_secs: the whole seconds of a duration held in ms
as_secs(ms) == ms \div 1000

\* Instant::duration_since: zero when earlier is the later instant
duration_since(later, earlier) ==
    IF later >= earlier THEN later - earlier ELSE 0

CachedTransaction(transaction, at) ==
    [transaction |-> transaction, cached_at |-> at]

\* a read that treats entries of exactly 30 s as fresh
fresh_lookup_inclusive(cache, mint, at) ==
    IF mint \in DOMAIN cache
       /\ as_secs(duration_since(at, cache[mint].cached_at)) <= 30
    THEN Some(cache[mint]) ELSE None

\* get_fresh_mint_transaction on the map `cache`, called at instant `at`
fresh_lookup(cache, mint, at) ==
    IF mint \in DOMAIN cache
       /\ as_secs(duration_since(at, cache[mint].cached_at)) < 30
    THEN Some(cache[mint]) ELSE None

\* get_general_transaction on the map `cache`, called at instant `at`
general_lookup(cache, mint, at) ==
    IF mint \in DOMAIN cache
       /\ as_secs(duration_since(at, cache[mint].cached_at)) < 60
    THEN Some(cache[mint]) ELSE None

get_fresh_mint_transaction(mint) == fresh_lookup(fresh_mints, mint, instant)
get_general_transaction(mint) == general_lookup(general_cache, mint, instant)

has_valid_transaction(mint) ==
    IF get_fresh_mint_transaction(mint) # None THEN TRUE
    ELSE IF get_general_transaction(mint) # None THEN TRUE
    ELSE FALSE

\* HashMap::retain with the closure of cleanup_expired
retain(cache, captured, secs) ==
    LET kept == {k \in DOMAIN cache :
                    as_secs(duration_since(captured, cache[k].cached_at)) < secs}
    IN  [k \in kept |-> cache[k]]

NoSweep == [pc |-> "idle", now |-> 0]
NoLooked == [called |-> FALSE, mint |-> "", result |-> FALSE]
CachedTxs == {"tx1"}
FetchOutcomes == {"ok", "err"}

\* the monotonic clock moves on
Advance ==
    /\ \E i \in CacheInstants : i > instant /\ instant' = i
    /\ UNCHANGED <<fresh_mints, general_cache, caching, sweep, inserted, looked>>
    /\ UNCHANGED notCache

\* cache_fresh_mint up to its first await: with the key in the map, expired
\* or not, the call returns Ok and nothing is built
CacheFreshMintCheck(mint) ==
    /\ mint \notin caching
    /\ caching' = IF mint \in DOMAIN fresh_mints THEN caching
                  ELSE caching \cup {mint}
    /\ UNCHANGED <<instant, fresh_mints, general_cache, sweep, inserted, looked>>
    /\ UNCHANGED notCache

\* cache_fresh_mint from the derivation of the accounts on: either await may
\* return Err; otherwise the entry is stamped and inserted
CacheFreshMintInsert(mint, outcome, tx) ==
    /\ mint \in caching
    /\ caching' = caching \ {mint}
    /\ IF outcome = "ok"
       THEN /\ fresh_mints' = insert(fresh_mints, mint,
                                     CachedTransaction(tx, instant))
            /\ inserted' = [inserted EXCEPT
                               !.fresh = insert(@, mint, instant)]
       ELSE UNCHANGED <<fresh_mints, inserted>>
    /\ UNCHANGED <<instant, general_cache, sweep, looked>>
    /\ UNCHANGED notCache

CacheGeneralTransaction(mint, tx) ==
    /\ general_cache' = insert(general_cache, mint,
                               CachedTransaction(tx, instant))
    /\ inserted' = [inserted EXCEPT !.general = insert(@, mint, instant)]
    /\ UNCHANGED <<instant, fresh_mints, caching, sweep, looked>>
    /\ UNCHANGED notCache

\* cleanup_expired: now is read first, then each map is swept under its own
\* write lock
CleanupExpiredBegin ==
    /\ sweep.pc = "idle"
    /\ sweep' = [pc |-> "fresh", now |-> instant]
    /\ UNCHANGED <<instant, fresh_mints, general_cache, caching, inserted, looked>>
    /\ UNCHANGED notCache

CleanupExpiredFresh ==
    /\ sweep.pc = "fresh"
    /\ fresh_mints' = retain(fresh_mints, sweep.now, 30)
    /\ sweep' = [sweep EXCEPT !.pc = "general"]
    /\ UNCHANGED <<instant, general_cache, caching, inserted, looked>>
    /\ UNCHANGED notCache

CleanupExpiredGeneral ==
    /\ sweep.pc = "general"
    /\ general_cache' = retain(general_cache, sweep.now, 60)
    /\ sweep' = NoSweep
    /\ UNCHANGED <<instant, fresh_mints, caching, inserted, looked>>
    /\ UNCHANGED notCache

HasValidTransaction(mint) ==
    /\ looked' = [called |-> TRUE, mint |-> mint,
                  result |-> has_valid_transaction(mint)]
    /\ UNCHANGED <<instant, fresh_mints, general_cache, caching, sweep, inserted>>
    /\ UNCHANGED notCache

CacheInit ==
    /\ instant = 0
    /\ fresh_mints = <<>>
    /\ general_cache = <<>>
    /\ caching = {}
    /\ sweep = NoSweep
    /\ inserted = [fresh |-> <<>>, general |-> <<>>]
    /\ looked = NoLooked

CacheStep ==
    \/ Advance
    \/ \E mint \in Mints : CacheFreshMintCheck(mint)
    \/ \E mint \in Mints, outcome \in FetchOutcomes, tx \in CachedTxs :
           CacheFreshMintInsert(mint, outcome, tx)
    \/ \E mint \in Mints, tx \in CachedTxs : CacheGeneralTransaction(mint, tx)
    \/ CleanupExpiredBegin
    \/ CleanupExpiredFresh
    \/ CleanupExpiredGeneral
    \/ \E mint \in Mints : HasValidTransaction(mint)

----------------------------------------------------------------------------
(* Calls of the pure helpers: pool keys, compute budget, bonding curve *)
\* how many derive_pool_keys_for_migrated_token calls a behaviour makes
MaxDerives == 3

DeriveMints == {"M1", "M2", "M3", "M4", WSOL_MINT}

DerivePoolKeys(mint) ==
    /\ Len(derived) < MaxDerives
    /\ derived' = Append(derived,
                         [mint |-> mint,
                          result |-> derive_pool_keys_for_migrated_token(mint)])
    /\ UNCHANGED <<pushed, curve>>
    /\ UNCHANGED notMath

DeriveStep == \E mint \in DeriveMints : DerivePoolKeys(mint)

\* tx/wrapper.rs and utils/fees.rs. A fee in SOL is held in tenths of a
\* lamport, so fee * LAMPORTS_PER_SOL / ACTUAL_CU_LIMIT is fee / (10 * limit).
ACTUAL_CU_LIMIT == 250000
CU_LIMIT == 250000

\* up to how many instructions the Vec handed to push_compute_budget_ix holds
MaxIxs == 5

set_compute_unit_limit(units) == Ix("set_compute_unit_limit", "", units)
set_compute_unit_price(micro_lamports) ==
    Ix("set_compute_unit_price", "", micro_lamports)

\* a price that drops the fraction instead of rounding it
tip_to_cu_price_truncating(total_sol) ==
    IF total_sol < 0 THEN 0 ELSE total_sol \div (10 * ACTUAL_CU_LIMIT)

\* tip_to_cu_price: (..).round() as u64; the cast takes a negative value to 0
tip_to_cu_price(total_sol) ==
    IF total_sol < 0 THEN 0 ELSE round_div(total_sol, 10 * ACTUAL_CU_LIMIT)

push_compute_budget_ix(ixs, fee_sol) ==
    IF fee_sol > 0
    THEN LET p == tip_to_cu_price(fee_sol)
         IN  Append(ixs, set_compute_unit_limit(CU_LIMIT))
                 \o (IF p > 0 THEN <<set_compute_unit_price(p)>> ELSE <<>>)
    ELSE ixs

\* fees on both sides of the halves of a micro-lamport price, in tenths of a
\* lamport: 1250000 is 0.000125 SOL
BudgetFees == {-10, 0, 1, 1249999, 1250000, 2500000, 3749999, 3750000,
               10000000, 100000000}

NoPushed == [called |-> FALSE, fee_sol |-> 0, before |-> <<>>, ixs |-> <<>>]

PushComputeBudgetIx(fee_sol) ==
    /\ Len(pushed.ixs) < MaxIxs
    /\ pushed' = [called |-> TRUE, fee_sol |-> fee_sol, before |-> pushed.ixs,
                  ixs |-> push_compute_budget_ix(pushed.ixs, fee_sol)]
    /\ UNCHANGED <<derived, curve>>
    /\ UNCHANGED notMath

BudgetStep == \E fee_sol \in BudgetFees : PushComputeBudgetIx(fee_sol)

\* dex/pumpfun_math.rs. The locals of min_tokens_out are u128: they are
\* held as limbs, and stay below 2^84 (vsr < 2^64 + the lamports spent).
\* the value of out beyond which the loop breaks
OUT_CAP == 10000
MILLION == <<0, 0, 1>>

\* u64::from_le_bytes, from byte i downwards onto the limbs acc
RECURSIVE le_from(_, _, _)
le_from(bytes, i, acc) ==
    IF i = 0 THEN acc
    ELSE le_from(bytes, i - 1,
                 big_add(big_scale(acc, 256), to_limbs(bytes[i])))
from_le_bytes(bytes) == le_from(bytes, Len(bytes), <<>>)

\* the eight little-endian bytes of a u64 below 2^31
to_le_bytes(n) ==
    <<n % 256, (n \div 256) % 256, (n \div 65536) % 256, n \div 16777216,
      0, 0, 0, 0>>

\* a loop that never breaks on the count of tokens
past_cap_never(out) == FALSE

\* out > 10_000
past_cap(out) == out > OUT_CAP

\* min_tokens_out up to the loop: the slices of bc_data panic when it is
\* shorter than the range they name
min_tokens_out_begin(bc_data, lamports) ==
    IF Len(bc_data) < 24
    THEN [pc |-> "panicked", vsr |-> <<>>, vtr |-> <<>>, sol |-> <<>>,
          out |-> 0, passes |-> 0,
          panic |-> "range end index out of range for slice"]
    ELSE [pc |-> "loop",
          vsr |-> from_le_bytes(SubSeq(bc_data, 17, 24)),
          vtr |-> from_le_bytes(SubSeq(bc_data, 9, 16)),
          sol |-> lamports, out |-> 0, passes |-> 0, panic |-> ""]

\* one evaluation of the loop condition and, when it holds, of the body
min_tokens_out_pass(c) ==
    IF c.sol = <<>>
    THEN [c EXCEPT !.pc = "returned"]
    ELSE IF c.vtr = <<>>
    THEN [c EXCEPT !.pc = "panicked", !.passes = @ + 1,
                   !.panic = "attempt to divide by zero"]
    ELSE LET price == big_div(big_mul(c.vsr, MILLION), c.vtr)
             cost == big_div(price, MILLION)
         IN  IF cost = <<>> \/ big_less(c.sol, cost)
             THEN [c EXCEPT !.pc = "returned", !.passes = @ + 1]
             ELSE [c EXCEPT !.sol = big_sub(c.sol, cost),
                            !.vsr = big_add(c.vsr, cost),
                            !.vtr = big_sub(c.vtr, <<1>>),
                            !.out = @ + 1,
                            !.passes = @ + 1,
                            !.pc = IF past_cap(c.out + 1)
                                   THEN "returned" ELSE "loop"]

\* the bytes of a bonding-curve account up to the virtual SOL reserves:
\* discriminator, virtual token reserves, virtual SOL reserves
BcData(vtr_bytes, vsr_bytes) == <<0, 0, 0, 0, 0, 0, 0, 0>> \o vtr_bytes \o vsr_bytes
U64_MAX_BYTES == <<255, 255, 255, 255, 255, 255, 255, 255>>
TWO_63_BYTES == <<0, 0, 0, 0, 0, 0, 0, 128>>
\* 1,073,000,000,000,000 token units and 30 SOL: a curve at its launch
LAUNCH_VTR_BYTES == <<0, 16, 216, 71, 227, 207, 3, 0>>
LAUNCH_VSR_BYTES == <<0, 172, 35, 252, 6, 0, 0, 0>>
ONE_SOL == <<0, 0, 0, 1>>

CurveInputs ==
    {[bc_data |-> BcData(to_le_bytes(20000), to_le_bytes(20000)),
      lamports |-> ONE_SOL],
     [bc_data |-> BcData(LAUNCH_VTR_BYTES, LAUNCH_VSR_BYTES),
      lamports |-> ONE_SOL],
     [bc_data |-> BcData(to_le_bytes(3), to_le_bytes(5)),
      lamports |-> to_limbs(100)],
     [bc_data |-> BcData(to_le_bytes(40), to_le_bytes(40)),
      lamports |-> to_limbs(100)],
     [bc_data |-> BcData(to_le_bytes(0), to_le_bytes(1)),
      lamports |-> to_limbs(1)],
     [bc_data |-> BcData(to_le_bytes(0), to_le_bytes(7)),
      lamports |-> to_limbs(0)],
     [bc_data |-> BcData(to_le_bytes(1), U64_MAX_BYTES),
      lamports |-> U64_MAX],
     [bc_data |-> BcData(to_le_bytes(1), TWO_63_BYTES),
      lamports |-> U64_MAX],
     [bc_data |-> <<0, 0, 0, 0, 0, 0, 0, 0>> \o to_le_bytes(20000),
      lamports |-> ONE_SOL]}

NoCurve == [pc |-> "idle", vsr |-> <<>>, vtr |-> <<>>, sol |-> <<>>,
            out |-> 0, passes |-> 0, panic |-> ""]

MinTokensOut(bc_data, lamports) ==
    /\ curve.pc = "idle"
    /\ curve' = min_tokens_out_begin(bc_data, lamports)
    /\ UNCHANGED <<derived, pushed>>
    /\ UNCHANGED notMath

MinTokensOutPass ==
    /\ curve.pc = "loop"
    /\ curve' = min_tokens_out_pass(curve)
    /\ UNCHANGED <<derived, pushed>>
    /\ UNCHANGED notMath

CurveStep ==
    \/ \E input \in CurveInputs : MinTokensOut(input.bc_data, input.lamports)
    \/ MinTokensOutPass


MathInit ==
    /\ derived = <<>>
    /\ pushed = NoPushed
    /\ curve = NoCurve

\* the components of the venue layer before any call
VenueInit ==
    SwapInit /\ BundleInit /\ SubmitInit /\ RouterInit /\ CacheInit /\ MathInit
----------------------------------------------------------------------------
(* The specifications *)
InitDedupe == DedupeInit /\ PositionsInit /\ StrategyInit /\ TokensInit /\ VenueInit
NextDedupe == DedupeStep
SpecDedupe == InitDedupe /\ [][NextDedupe]_vars

NextTrade == TradeStep
SpecTrade == InitDedupe /\ [][NextTrade]_vars

\* the runtime keeps the clock running and the spawned cleanup loop scheduled
NextCleanup == CleanupStep
SpecCleanup ==
    /\ InitDedupe
    /\ [][NextCleanup]_vars
    /\ WF_vars(Tick)
    /\ WF_vars(CleanupTask)

InitPositions == DedupeInit /\ PositionsInit /\ StrategyInit /\ TokensInit /\ VenueInit
NextPositions == PositionsStep
SpecPositions == InitPositions /\ [][NextPositions]_vars

\* a registry holding one position, sold from
InitSell ==
    /\ DedupeInit
    /\ positions \in SellSnapshots
    /\ file = [status |-> "complete", content |-> positions]
    /\ pm_pc = "idle"
    /\ loaded = [result |-> "none", seen |-> "not_called"]
    /\ last_call = NoCall
    /\ StrategyInit
    /\ TokensInit
    /\ VenueInit
NextSell == SellStep
SpecSell == InitSell /\ [][NextSell]_vars

\* builds and sell sizings over an empty token cache
InitTokens ==
    /\ DedupeInit /\ PositionsInit /\ StrategyInit
    /\ TOKEN_AMOUNTS = <<>>
    /\ build_pc = [t \in Tasks |-> "idle"]
    /\ build = [t \in Tasks |-> NoBuild]
    /\ calc = NoCalc
    /\ slippage \in TokenSlippage
    /\ quote = NoQuote
    /\ VenueInit
NextTokens == TokensStep
SpecTokens == InitTokens /\ [][NextTokens]_vars

\* the minimum computed under each slippage setting
InitSlippage ==
    /\ DedupeInit /\ PositionsInit /\ StrategyInit
    /\ TOKEN_AMOUNTS = <<>>
    /\ build_pc = [t \in Tasks |-> "idle"]
    /\ build = [t \in Tasks |-> NoBuild]
    /\ calc = NoCalc
    /\ slippage \in AllSlippage
    /\ quote = NoQuote
    /\ VenueInit
NextSlippage == SlippageStep
SpecSlippage == InitSlippage /\ [][NextSlippage]_vars

\* the engine with some settings and some registry, fed fills
InitStrategy ==
    /\ DedupeInit
    /\ positions \in PositionSnapshots
    /\ file = [status |-> "complete", content |-> positions]
    /\ pm_pc = "idle"
    /\ loaded = [result |-> "none", seen |-> "not_called"]
    /\ last_call = NoCall
    /\ settings \in SettingsSet
    /\ fill = NoFill
    /\ plans = <<>>
    /\ STRATEGY_ENGINE = Some("S1")
    /\ engines = <<StrategyEngine_new("S1")>>
    /\ TokensInit
    /\ VenueInit
NextStrategy == StrategyStep
SpecStrategy == InitStrategy /\ [][NextStrategy]_vars

\* engines being constructed, the settings and the registry as above; the
\* engines are handed sells of a held mint
EngineFills ==
    {f \in Fills : /\ f.side = "Sell" /\ f.mint = "M1" /\ f.wallet_label = "A"
                   /\ f.cost_lamports = 0 /\ f.pct_of_balance = 1000
                   /\ f.dex \in {"Pumpfun", "RaydiumLaunchpad"}}
EngineStep ==
    \/ \E shared \in EngineShareds : StrategyEngineNew(shared)
    \/ \E f \in EngineFills : OnFill(f)
InitEngine ==
    /\ DedupeInit
    /\ positions \in PositionSnapshots
    /\ file = [status |-> "complete", content |-> positions]
    /\ pm_pc = "idle"
    /\ loaded = [result |-> "none", seen |-> "not_called"]
    /\ last_call = NoCall
    /\ settings \in SettingsSet
    /\ fill = NoFill
    /\ plans = <<>>
    /\ STRATEGY_ENGINE = None
    /\ engines = <<>>
    /\ TokensInit
    /\ VenueInit
NextEngine == EngineStep
SpecEngine == InitEngine /\ [][NextEngine]_vars

\* the instruction lists under each tip setting
InitAssemble ==
    /\ DedupeInit /\ PositionsInit /\ StrategyInit
    /\ TOKEN_AMOUNTS = <<>>
    /\ build_pc = [t \in Tasks |-> "idle"]
    /\ build = [t \in Tasks |-> NoBuild]
    /\ calc = NoCalc
    /\ slippage \in AssembleSettings
    /\ quote = NoQuote
    /\ VenueInit
NextAssemble == AssembleStep
SpecAssemble == InitAssemble /\ [][NextAssemble]_vars

\* bundles under each tip setting
InitBundle ==
    /\ DedupeInit /\ PositionsInit /\ StrategyInit /\ TokensInit /\ SwapInit
    /\ tips \in TipSettings
    /\ bundle = NoBundle
    /\ SubmitInit /\ RouterInit /\ CacheInit /\ MathInit
NextBundle == BundleStep
SpecBundle == InitBundle /\ [][NextBundle]_vars

\* a submitter constructed and handed payloads
InitSubmit == DedupeInit /\ PositionsInit /\ StrategyInit /\ TokensInit /\ VenueInit
NextSubmit == SubmitStep
SpecSubmit == InitSubmit /\ [][NextSubmit]_vars

\* the program ids of one transaction, classified
InitIdentify == DedupeInit /\ PositionsInit /\ StrategyInit /\ TokensInit /\ VenueInit
NextIdentify == IdentifyStep
SpecIdentify == InitIdentify /\ [][NextIdentify]_vars

\* plans handed to build_tx_from_plan
NextPlan == PlanStep
SpecPlan == InitIdentify /\ [][NextPlan]_vars

\* the engine's sell plans, completed and handed to build_tx_from_plan
NextEmitted == EmittedStep
SpecEmitted == InitStrategy /\ [][NextEmitted]_vars

\* route_transaction over each state of the pool_tracker caches
InitRoute ==
    /\ DedupeInit /\ PositionsInit /\ StrategyInit
    /\ TOKEN_AMOUNTS = <<>>
    /\ build_pc = [t \in Tasks |-> "idle"]
    /\ build = [t \in Tasks |-> NoBuild]
    /\ calc = NoCalc
    /\ slippage \in AssembleSettings
    /\ slippage.buy_bribe_sol = 0 /\ slippage.sell_bribe_sol = 0 /\ slippage.jito
    /\ quote = NoQuote
    /\ SwapInit /\ BundleInit /\ SubmitInit
    /\ identified = NoIdentified
    /\ planned = NoPlanned
    /\ pump_swap_coin_creators \in CoinCreators
    /\ pumpfun_constants \in PumpfunConstants
    /\ routed = NoRouted
    /\ CacheInit /\ MathInit
NextRoute == RouteStep
SpecRoute == InitRoute /\ [][NextRoute]_vars

\* the transaction cache under inserts, reads, sweeps and the passing of time
InitCache == DedupeInit /\ PositionsInit /\ StrategyInit /\ TokensInit /\ VenueInit
NextCache == CacheStep
SpecCache == InitCache /\ [][NextCache]_vars

\* pool keys derived for mints on both sides of the wrapped-native mint
InitDerive == DedupeInit /\ PositionsInit /\ StrategyInit /\ TokensInit /\ VenueInit
NextDerive == DeriveStep
SpecDerive == InitDerive /\ [][NextDerive]_vars

\* a Vec of instructions grown by push_compute_budget_ix
InitBudget == DedupeInit /\ PositionsInit /\ StrategyInit /\ TokensInit /\ VenueInit
NextBudget == BudgetStep
SpecBudget == InitBudget /\ [][NextBudget]_vars

\* min_tokens_out run pass by pass
InitCurve == DedupeInit /\ PositionsInit /\ StrategyInit /\ TokensInit /\ VenueInit
NextCurve == CurveStep
SpecCurve == InitCurve /\ [][NextCurve]_vars

\* quotes over the sampled reserves and amounts
InitSwap == DedupeInit /\ PositionsInit /\ StrategyInit /\ TokensInit /\ VenueInit
NextSwap == SwapStep
SpecSwap == InitSwap /\ [][NextSwap]_vars

----------------------------------------------------------------------------
(* Claims about tx/dedupe.rs *)
Both(key) == key \in DOMAIN PENDING_BUYS /\ key \in CONFIRMED_BUYS

OthersUnchanged(key) ==
    \A k \in Keys \ {key} :
        /\ (k \in DOMAIN PENDING_BUYS') = (k \in DOMAIN PENDING_BUYS)
        /\ (k \in DOMAIN PENDING_BUYS => PENDING_BUYS'[k] = PENDING_BUYS[k])
        /\ (k \in CONFIRMED_BUYS') = (k \in CONFIRMED_BUYS)

\* C1 (as claimed): no key is in PENDING_BUYS and in CONFIRMED_BUYS at once.
C1_Disjoint == \A k \in Keys : ~Both(k)

\* C1 (amended): a key is in both PENDING_BUYS and CONFIRMED_BUYS only when its
\* pending entry was written by a mark_pending_buy that ran while the key was
\* already confirmed or while a confirm_buy/clear of the key was between its two
\* steps; no other call ever puts a key in both.
C1_BothOnlyIfRemarked == \A k \in Keys : Both(k) => k \in remarked

C1_Witness == \E k \in Keys : Both(k) /\ last_op = <<"mark_pending_buy", k>>

\* C3: should_allow_buy is false exactly when the key has a pending entry of
\* age <= 1000 ms; it is true with no entry, with an older entry, and whatever
\* CONFIRMED_BUYS holds; marked at 0 it is false at 300 and true at 1200.
C3_ShouldAllow ==
    \A w \in Wallets, m \in Mints :
        LET k == format_key(w, m)
            blocked == k \in DOMAIN PENDING_BUYS
                       /\ now - PENDING_BUYS[k] <= PENDING_TIMEOUT_MS
        IN  /\ should_allow_buy(w, m) = ~blocked
            /\ (k \in DOMAIN PENDING_BUYS /\ PENDING_BUYS[k] = 0 /\ now = 300
                    => ~should_allow_buy(w, m))
            /\ (k \in DOMAIN PENDING_BUYS /\ PENDING_BUYS[k] = 0 /\ now = 1200
                    => should_allow_buy(w, m))
            /\ (k \notin DOMAIN PENDING_BUYS /\ k \in CONFIRMED_BUYS
                    => should_allow_buy(w, m))

C3_Witness ==
    \E w \in Wallets, m \in Mints :
        /\ format_key(w, m) \in DOMAIN PENDING_BUYS
        /\ PENDING_BUYS[format_key(w, m)] = 0
        /\ now = 1200
        /\ should_allow_buy(w, m)

\* C4 (as claimed): when confirm_buy completes the key is absent from
\* PENDING_BUYS and present in CONFIRMED_BUYS; when clear completes the key is
\* absent from both.
C4_PostAsClaimed ==
    [][\A t \in Tasks :
          /\ ConfirmBuyInsert(t) =>
                arg[t] \notin DOMAIN PENDING_BUYS' /\ arg[t] \in CONFIRMED_BUYS'
          /\ ClearConfirmed(t) =>
                arg[t] \notin DOMAIN PENDING_BUYS' /\ arg[t] \notin CONFIRMED_BUYS'
      ]_vars

\* C4 (amended): when confirm_buy completes the key is in CONFIRMED_BUYS, when
\* clear completes it is not; in both cases the key is absent from PENDING_BUYS
\* unless a mark_pending_buy of the key ran between the call's two lock
\* acquisitions; every step of both calls leaves all other keys as they were.
C4_PostUnlessRemarked ==
    [][/\ \A t \in Tasks :
             /\ ConfirmBuyInsert(t) =>
                   /\ arg[t] \in CONFIRMED_BUYS'
                   /\ (arg[t] \in DOMAIN PENDING_BUYS' => arg[t] \in remarked')
                   /\ OthersUnchanged(arg[t])
             /\ ClearConfirmed(t) =>
                   /\ arg[t] \notin CONFIRMED_BUYS'
                   /\ (arg[t] \in DOMAIN PENDING_BUYS' => arg[t] \in remarked')
                   /\ OthersUnchanged(arg[t])
       /\ \A t \in Tasks, w \in Wallets, m \in Mints :
             ConfirmBuyRemove(t, w, m) \/ ClearPending(t, w, m) =>
                   /\ format_key(w, m) \notin DOMAIN PENDING_BUYS'
                   /\ CONFIRMED_BUYS' = CONFIRMED_BUYS
                   /\ OthersUnchanged(format_key(w, m))
      ]_vars

C4_Witness ==
    \E k \in Keys, k2 \in Keys :
        /\ last_op = <<"clear", k>>
        /\ k \notin DOMAIN PENDING_BUYS /\ k \notin CONFIRMED_BUYS
        /\ k2 \in DOMAIN PENDING_BUYS /\ k2 \in CONFIRMED_BUYS

\* C5: rollback_pending_buy removes the key's pending entry, leaves
\* CONFIRMED_BUYS and every other key unchanged, and a should_allow_buy of the
\* key right after it returns true.
C5_Rollback ==
    [][\A t \in Tasks, w \in Wallets, m \in Mints :
          RollbackPendingBuy(t, w, m) =>
              /\ format_key(w, m) \notin DOMAIN PENDING_BUYS'
              /\ CONFIRMED_BUYS' = CONFIRMED_BUYS
              /\ OthersUnchanged(format_key(w, m))
              /\ should_allow_buy(w, m)'
      ]_vars

C5_Witness ==
    \E w \in Wallets, m \in Mints, k2 \in Keys :
        /\ last_op = <<"rollback_pending_buy", format_key(w, m)>>
        /\ format_key(w, m) \in CONFIRMED_BUYS
        /\ k2 # format_key(w, m) /\ k2 \in DOMAIN PENDING_BUYS
        /\ should_allow_buy(w, m)

\* C2: of two tasks running "if should_allow_buy then mark_pending_buy then
\* submit" for the same key, at most one reaches submission within 1000 ms.
C2_OneSubmissionPerWindow ==
    \A t1 \in Tasks, t2 \in Tasks :
        (/\ t1 # t2
         /\ pc[t1] = "SUBMITTED" /\ pc[t2] = "SUBMITTED"
         /\ arg[t1] = arg[t2])
        => saturating_sub(submit_at[t1], submit_at[t2])
             + saturating_sub(submit_at[t2], submit_at[t1]) > PENDING_TIMEOUT_MS

\* C6: a pending entry that nothing else removes or rewrites is eventually
\* removed by the cleanup task (given that its timeout falls before the end of
\* the sampled clock), and a cleanup removes exactly the entries older than
\* 1000 ms.
C6_Cleanup ==
    /\ \A k \in Keys, ts \in Instants :
          (k \in DOMAIN PENDING_BUYS /\ PENDING_BUYS[k] = ts
              /\ ts + PENDING_TIMEOUT_MS < Horizon)
          ~> ~(k \in DOMAIN PENDING_BUYS /\ PENDING_BUYS[k] = ts)
    /\ [][CleanupTask =>
            \A k \in Keys :
                /\ k \in DOMAIN PENDING_BUYS' <=>
                       (k \in DOMAIN PENDING_BUYS
                        /\ now - PENDING_BUYS[k] <= PENDING_TIMEOUT_MS)
                /\ k \in DOMAIN PENDING_BUYS' => PENDING_BUYS'[k] = PENDING_BUYS[k]
         ]_vars

C6_Witness ==
    \E k \in Keys :
        /\ last_op = <<"mark_pending_buy", k>>
        /\ k \notin DOMAIN PENDING_BUYS
        /\ now > PENDING_TIMEOUT_MS

----------------------------------------------------------------------------
(* Claims about positions/mod.rs *)

\* C7: every Position in the registry has balance > 0, that is balance(m) = 0
\* exactly when m has no entry.
C7_BalancePositive ==
    /\ \A m \in DOMAIN positions : positions[m].balance > 0
    /\ \A m \in Mints : (balance(m) = 0) <=> (m \notin DOMAIN positions)

\* C8: a load that runs while the file is rewritten never meets an empty or
\* partly written file.
C8_NoTornRead == loaded.seen \in {"not_called", "missing", "complete"}

----------------------------------------------------------------------------
(* Claims about strategy/*.rs *)

\* C9: every plan the engine returns is well formed: a Buy has
\* buy_lamports > 0 and no sell_pct, a Sell has a sell_pct in (0, 1].
C9_PlansWellFormed ==
    \A i \in 1..Len(plans) :
        /\ plans[i].side = "Buy" =>
              plans[i].buy_lamports > 0 /\ plans[i].sell_pct = None
        /\ plans[i].side = "Sell" =>
              /\ plans[i].sell_pct # None
              /\ 0 < plans[i].sell_pct[1] /\ plans[i].sell_pct[1] <= 1000

C11_EqualGateNotFollowed ==
    (fill # NoFill /\ fill.side = "Buy") =>
        LET i == find_wallet(settings.tracked_wallets, fill.wallet_label) IN
        (i # 0 /\ fill.cost_lamports = sol_to_lamports(settings.tracked_wallets[i].sol_gate))
            => /\ FollowBuy_on_fill(fill, settings) = <<>>
               /\ plans = <<>>

\* C12: for a Sell fill FollowSell returns exactly one plan, a Sell on the
\* fill's mint and venue whose sell_pct is 1.0 when pct_of_balance >= 0.90 and
\* pct_of_balance itself otherwise; for a Buy fill it returns nothing. The
\* plan is the first one the engine returns for the fill.
C12_FollowSell ==
    fill # NoFill =>
        LET out == FollowSell_on_fill(fill, settings) IN
        /\ fill.side = "Buy" =>
              /\ out = <<>>
              /\ \A i \in 1..Len(plans) : plans[i].side # "Sell"
        /\ fill.side = "Sell" =>
              /\ Len(out) = 1
              /\ plans # <<>> /\ plans[1] = out[1]
              /\ out[1].side = "Sell"
              /\ out[1].mint = fill.mint
              /\ out[1].dex = fill.dex
              /\ out[1].buy_lamports = 0
              /\ fill.pct_of_balance >= 900 => out[1].sell_pct = <<1000>>
              /\ fill.pct_of_balance < 900 => out[1].sell_pct = <<fill.pct_of_balance>>

C12_Witness ==
    /\ fill # NoFill
    /\ fill.side = "Sell" /\ fill.pct_of_balance = 900 /\ fill.dex = "Meteora"
    /\ plans # <<>>
    /\ plans[1].side = "Sell" /\ plans[1].dex = "Meteora"
    /\ plans[1].sell_pct = <<1000>>

\* C13: TakeProfit emits a plan only for a Sell fill on a mint with balance > 0
\* whose unrealised_pct is >= take_profit_percent; the plan is a Sell on the
\* fill's mint and venue whose sell_pct is take_profit_sell_fraction on every
\* venue; a Buy fill gets no plan.
C13_TakeProfit ==
    fill # NoFill =>
        LET out == TakeProfit_on_fill(fill, settings) IN
        /\ fill.side = "Buy" => out = <<>>
        /\ out # <<>> =>
              /\ fill.side = "Sell"
              /\ balance(fill.mint) > 0
              /\ positions[fill.mint].last_price # None
              /\ pnl_at_least(positions[fill.mint], settings.take_profit_percent)
              /\ Len(out) = 1
              /\ out[1].side = "Sell"
              /\ out[1].mint = fill.mint
              /\ out[1].dex = fill.dex
              /\ out[1].sell_pct = <<settings.take_profit_sell_fraction>>
              /\ plans[Len(plans)] = out[1]

\* C14: the engine returns the plans of FollowBuy, FollowSell and TakeProfit
\* concatenated in that order, each strategy asked once: a Buy fill yields at
\* most one plan, a Sell fill yields FollowSell's plan first and then
\* TakeProfit's plan when take-profit triggers.
C14_EngineOrder ==
    fill # NoFill =>
        LET fb == FollowBuy_on_fill(fill, settings)
            fs == FollowSell_on_fill(fill, settings)
            tp == TakeProfit_on_fill(fill, settings)
        IN  /\ plans = fb \o fs \o tp
            /\ fill.side = "Buy" => Len(plans) <= 1 /\ plans = fb
            /\ fill.side = "Sell" =>
                  /\ Len(plans) = 1 + Len(tp)
                  /\ plans[1] = fs[1]
                  /\ tp # <<>> => Len(plans) = 2 /\ plans[2] = tp[1]

C14_Witness ==
    /\ fill # NoFill
    /\ fill.side = "Sell" /\ fill.pct_of_balance = 250
    /\ Len(plans) = 2
    /\ plans[1].sell_pct = <<250>>
    /\ plans[2].sell_pct = <<settings.take_profit_sell_fraction>>

\* C15: STRATEGY_ENGINE is set once: the first StrategyEngine::new fixes it to
\* the EngineShared it was given and no later StrategyEngine::new, with the
\* same or another EngineShared, changes it.
C15_SetOnce ==
    /\ engines = <<>> => STRATEGY_ENGINE = None
    /\ engines # <<>> => STRATEGY_ENGINE = Some(engines[1].positions)

C15_Witness ==
    /\ Len(engines) = 2
    /\ engines[2].positions # engines[1].positions
    /\ STRATEGY_ENGINE = Some(engines[1].positions)

----------------------------------------------------------------------------
(* Laws of record_buy and record_sell *)

\* C16: from a registry without a position for m, record_buy(m, q, c) directly
\* followed by record_sell(m, q, _) leaves m absent (balance(m) = 0), for
\* every q and c.
C16_RoundTrip ==
    (last_call.op = "record_sell" /\ last_call.after_buy) =>
        /\ last_call.mint \notin DOMAIN positions
        /\ balance(last_call.mint) = 0

C16_Witness ==
    /\ last_call.op = "record_sell" /\ last_call.after_buy
    /\ last_call.qty > 0
    /\ last_call.mint \notin DOMAIN positions

----------------------------------------------------------------------------
(* Claims about the token-amount cache and the builders *)

\* C18: calculate_sell_amount returns None when nothing is cached for
\* (wallet, mint) and floor(cached_amount * pct) otherwise, for pct in (0, 1].
C18_SellAmountFloor ==
    calc # NoCalc =>
        /\ (calc.cached = None) <=> (calc.result = None)
        /\ calc.cached # None =>
              calc.result = <<(calc.cached[1] * calc.percentage) \div 1000>>

\* C19: when a buy build succeeds the cache entry of (signer, mint) is the
\* min_amount_out of that build; when a sell build of token_amount that read
\* the cached amount N succeeds the entry is gone if token_amount >= N and is
\* N - token_amount otherwise; a build that fails on the blockhash leaves the
\* cache as it was.
C19_CacheAfterBuild ==
    [][\A t \in Tasks :
        LET key == <<me, build[t].mint>> IN
        /\ BuildBuyStore(t) =>
              /\ key \in DOMAIN TOKEN_AMOUNTS'
              /\ TOKEN_AMOUNTS'[key] = build[t].min_amount_out
              /\ build[t].min_amount_out =
                    ((build[t].amount \div 1000)
                       * (10000 - slippage.buy_slippage_percent \div 10)) \div 10000
        /\ BuildSellUpdate(t) =>
              LET N == build[t].current_amount[1] IN
              IF build[t].amount >= N
              THEN key \notin DOMAIN TOKEN_AMOUNTS'
              ELSE /\ key \in DOMAIN TOKEN_AMOUNTS'
                   /\ TOKEN_AMOUNTS'[key] = N - build[t].amount
        /\ BuildSellGet(t) => TOKEN_AMOUNTS' = TOKEN_AMOUNTS
        /\ BuildBlockhashErr(t) => TOKEN_AMOUNTS' = TOKEN_AMOUNTS
      ]_vars

C19_Witness ==
    \E t \in Tasks :
        /\ build_pc[t] = "built"
        /\ build[t].side = "Sell"
        /\ build[t].current_amount = <<5>>
        /\ build[t].amount = 2
        /\ TOKEN_AMOUNTS[<<me, build[t].mint>>] = 3

\* C20: for a fixed expected output and a fixed floor a higher slippage
\* setting strictly lowers the buy min_amount_out and lowers the sell
\* min_amount_out, expected * (10_000 - slippage_bps) / 10_000, for every
\* slippage the configuration can hold, and the subtraction never underflows.
C20_SlippageMonotone ==
    /\ quote.side # "none" => quote.outcome.kind = "value"
    /\ quote.side = "Buy" =>
          \A higher \in SlippagePercents :
              higher > slippage.buy_slippage_percent =>
                  \A o \in buy_min_amount_out(quote.input, higher) :
                      o.kind = "value" /\ o.value < quote.outcome.value
    /\ quote.side = "Sell" =>
          \A higher \in SlippagePercents :
              higher > slippage.sell_slippage_percent =>
                  \A o \in sell_min_amount_out(quote.input, higher) :
                      o.kind = "value" /\ o.value <= quote.outcome.value

\* C21: for reserve_in, reserve_out and amount_in of realistic size (from 10^6
\* up to the test's values: reserve_in 10^9, reserve_out 10^12, amount_in
\* 10^9), calculate_swap_amount returns Ok(out) with out = floor(amount_in * 997500 *
\* reserve_out / (reserve_in * 10^6 + amount_in * 997500)) and
\* 0 < out < reserve_out; with a zero reserve it returns an error.
C21_SwapAsClaimed ==
    swap.called =>
        LET with_fee == big_scale(swap.amount_in, 997500)
            exact == big_div(big_mul(with_fee, swap.reserve_out),
                             big_add(big_scale(swap.reserve_in, 1000000),
                                     with_fee))
            out == swap.result.value
        IN  IF swap.reserve_in = <<>> \/ swap.reserve_out = <<>>
            THEN ~swap.result.ok
            ELSE (/\ ~big_less(swap.amount_in, <<0, 0, 1>>)
                  /\ ~big_less(<<0, 0, 0, 1>>, swap.amount_in)
                  /\ ~big_less(swap.reserve_in, <<0, 0, 1>>)
                  /\ ~big_less(<<0, 0, 0, 1>>, swap.reserve_in)
                  /\ ~big_less(swap.reserve_out, <<0, 0, 1>>)
                  /\ ~big_less(<<0, 0, 0, 0, 1>>, swap.reserve_out))
                 => /\ swap.result.ok
                    /\ out = exact
                    /\ out # <<>>
                    /\ big_less(out, swap.reserve_out)

\* C22: every transaction the CPMM builder assembles has its instructions in
\* the contract order: the tip transfer at index 0, then the compute-unit
\* limit and the compute-unit price, then the ATA creations (with the funding
\* of a wrapped-native input), then the swap, then, only when the output is
\* the wrapped-native mint (a sell), the close-account as the last one.
C22_ContractOrder ==
    \A t \in Tasks :
        build_pc[t] = "built" =>
            LET ixs == build[t].instructions
                last == Len(ixs)
            IN  /\ last >= 4
                /\ ixs[1] = system_transfer(tip_to, ixs[1].amount)
                /\ ixs[2].ix = "set_compute_unit_limit"
                /\ ixs[3].ix = "set_compute_unit_price"
                /\ \E k \in 4..last :
                       /\ ixs[k].ix = "swap_base_input"
                       /\ \A i \in 4..(k - 1) :
                              ixs[i].ix \in
                                  {"create_associated_token_account_idempotent",
                                   "system_transfer", "sync_native"}
                       /\ IF build[t].side = "Sell"
                          THEN k = last - 1 /\ ixs[last].ix = "close_account"
                          ELSE k = last

\* C23: in every transaction a venue builder assembles, a configured tip
\* above 0 and below 1000 lamports is raised to 1000, and a configured tip of
\* 0 leaves the transaction without a tip transfer.
C23_MinimumTip ==
    \A t \in Tasks :
        build_pc[t] = "built" =>
            LET ixs == build[t].instructions
                bribe_sol == IF build[t].side = "Buy"
                             THEN slippage.buy_bribe_sol
                             ELSE slippage.sell_bribe_sol
                tip_ixs == {i \in 1..Len(ixs) :
                               ixs[i] = system_transfer(tip_to, ixs[i].amount)}
            IN  /\ (0 < bribe_sol /\ bribe_sol < 10000) =>
                       \E i \in tip_ixs : ixs[i].amount = 1000
                /\ bribe_sol = 0 => tip_ixs = {}

\* C24: build_jito_bundle returns exactly two base64 transactions, the main
\* transaction first and the standalone tip transaction second, the tip being
\* max(1000, sol_to_lamports(bribe + priority_fee)) of the buy settings for a
\* buy and of the sell settings for a sell; when the tip transaction cannot be
\* built (no blockhash) it returns an error and no bundle.
C24_Bundle ==
    bundle.called =>
        LET total == IF bundle.side = "Buy"
                     THEN tips.buy_bribe_sol + tips.buy_priority_fee_sol
                     ELSE tips.sell_bribe_sol + tips.sell_priority_fee_sol
            lamports == IF round_div(total, 10) < 1000 THEN 1000
                        ELSE round_div(total, 10)
        IN  IF bundle.blockhash = "err"
            THEN ~bundle.result.ok /\ bundle.result.value = <<>>
            ELSE /\ bundle.result.ok
                 /\ bundle.result.value[1] = "json"
                 /\ Len(bundle.result.value[2]) = 2
                 /\ bundle.result.value[2][1] = <<"base64", bundle.main_tx>>
                 /\ bundle.result.value[2][2][1] = "base64"
                 /\ \E to \in TIP_ACCOUNTS :
                        bundle.result.value[2][2][2].instructions
                            = <<system_transfer(to, lamports)>>

\* a sell bundle whose configured tip of 0.5 lamports was raised to 1000
C24_Witness ==
    /\ bundle.called
    /\ bundle.side = "Sell"
    /\ bundle.result.ok
    /\ tips.sell_bribe_sol + tips.sell_priority_fee_sol = 5
    /\ tips.buy_bribe_sol + tips.buy_priority_fee_sol > 10000

\* C25: the submitter chosen for jito_enabled = true attempts the bundle path
\* first and, when that attempt returned an error, submits through the fast
\* path and returns the fast path's result; the submitter chosen for
\* jito_enabled = false only ever uses the fast path; an error is returned
\* only when every attempted path failed.
C25_SubmitPolicy ==
    submitted.called =>
        LET fast_ok == /\ submitted.response.transport = "ok"
                       /\ submitted.response.status \in 200..299
                       /\ submitted.response.body.has_result
                       /\ submitted.response.body.result_is_str
        IN  IF submitter.jito_enabled
            THEN /\ submitted.posts[1].url = "jito_bundle_url"
                 /\ IF submitted.bundle_outcome.ok
                    THEN /\ Len(submitted.posts) = 1
                         /\ submitted.result = submitted.bundle_outcome
                    ELSE /\ Len(submitted.posts) = 2
                         /\ submitted.posts[2].url = "relayer_url"
                         /\ submitted.result.ok = fast_ok
                         /\ fast_ok => submitted.result.value
                                           = submitted.response.body.result
            ELSE /\ \A i \in 1..Len(submitted.posts) :
                        submitted.posts[i].url = "relayer_url"
                 /\ submitted.result.ok = fast_ok

\* the bundle attempt answered HTTP 500 and the fast path returned SIG
C25_Witness ==
    /\ submitted.called
    /\ submitter.jito_enabled
    /\ submitted.bundle_outcome = Failed("Jito HTTP 500")
    /\ submitted.result = Ok("SIG")

\* C26: HeliusFast::submit performs exactly one POST per call and returns
\* Ok(signature) if and only if the response status is 2xx and the JSON body
\* carries a string `result`; a non-2xx status, a body without `result` and a
\* transport error or timeout each yield Err; the request always carries
\* skipPreflight = true and maxRetries = 0, whatever skip_preflight is.
C26_HeliusFast ==
    (submitted.called /\ submitter.kind = "HeliusFast") =>
        /\ Len(submitted.posts) = 1
        /\ submitted.posts[1].tx = submitted.tx_b64
        /\ submitted.posts[1].skipPreflight = TRUE
        /\ submitted.posts[1].maxRetries = 0
        /\ submitted.result.ok
               <=> /\ submitted.response.transport = "ok"
                   /\ submitted.response.status \in 200..299
                   /\ submitted.response.body.json
                   /\ submitted.response.body.has_result
                   /\ submitted.response.body.result_is_str
        /\ submitted.result.ok =>
               submitted.result.value = submitted.response.body.result

\* a call with skip_preflight = false that returned the signature
C26_Witness ==
    /\ submitted.called
    /\ submitter.kind = "HeliusFast"
    /\ ~submitted.skip
    /\ submitted.result = Ok("SIG")

\* C27: identify_dex_by_program_ids returns the DexKind of the first program
\* id of the list that is in the static table, and None exactly when no id of
\* the list is in it; the table, get_all_program_ids (7 ids) and
\* get_dex_name_by_program_id agree on which ids are known.
C27_Identify ==
    identified.called =>
        LET ids == identified.program_ids
            listed == {get_all_program_ids[i] : i \in 1..Len(get_all_program_ids)}
            hits == {i \in 1..Len(ids) : ids[i] \in listed}
        IN  /\ Len(get_all_program_ids) = 7
            /\ Cardinality(listed) = 7
            /\ identified.detected_dex = None <=> hits = {}
            /\ hits # {} =>
                   \E i \in hits :
                       /\ \A j \in hits : i <= j
                       /\ identified.detected_dex
                              = identify_dex_by_program_id(ids[i])
            /\ \A i \in 1..Len(ids) :
                   /\ is_known_dex_program_id(ids[i]) <=> ids[i] \in listed
                   /\ ids[i] \in listed
                          <=> get_dex_name_by_program_id(ids[i]) # None

\* a list that names an unknown program, then Mercurial, then PumpFun: the
\* venue is Mercurial's
C27_Witness ==
    /\ identified.called
    /\ identified.program_ids
           = <<"11111111111111111111111111111111",
               MERCURIAL_DYNAMIC_AMM_PROGRAM_ID, PUMPFUN_PROGRAM_ID>>
    /\ identified.detected_dex = Some("Meteora")

\* C28: when the build under the bonding-curve assumption (a Pumpfun plan)
\* fails, build_tx_from_plan detects the venue once and returns the
\* transaction rebuilt under whichever venue the detection reports; when the
\* first build succeeds it makes no detection.
C28_FallbackRebuilds ==
    (/\ planned.called
     /\ planned.plan.dex = "Pumpfun"
     /\ planned.plan.side = "Sell" =>
            planned.plan.sell_pct # None /\ planned.plan.sell_pct[1] > 0) =>
        IF planned.first = "ok"
        THEN planned.detections = 0 /\ planned.result.ok
        ELSE /\ planned.detections = 1
             /\ planned.retry = "ok" =>
                    /\ planned.result.ok
                    /\ planned.result.tx.venue = planned.actual_dex

\* C29: route_transaction for the migrated-AMM venue returns an error without
\* building, without an RPC lookup and without changing the token-amount
\* cache whenever neither the pump-swap coin_creator cache nor the pumpfun
\* constants hold the mint; when the pump-swap cache holds it, its value is
\* the coin_creator used.
C29_FailFast ==
    [][(routed' # routed /\ routed'.dex_kind = "PumpSwap") =>
          /\ (/\ routed'.mint \notin DOMAIN pump_swap_coin_creators
              /\ routed'.mint \notin DOMAIN pumpfun_constants) =>
                 /\ ~routed'.result.ok
                 /\ routed'.builds = <<>>
                 /\ routed'.rpc_lookups = 0
                 /\ TOKEN_AMOUNTS' = TOKEN_AMOUNTS
          /\ routed'.mint \in DOMAIN pump_swap_coin_creators =>
                 routed'.coin_creator
                     = Some(pump_swap_coin_creators[routed'.mint])]_vars

\* a migrated-AMM sell refused for a mint neither cache holds, while the
\* token-amount cache holds amounts and the constants of another mint exist
C29_Witness ==
    /\ routed.called
    /\ routed.dex_kind = "PumpSwap"
    /\ routed.side = "Sell"
    /\ routed.mint = "M2"
    /\ ~routed.result.ok
    /\ pump_swap_coin_creators # <<>>
    /\ pumpfun_constants # <<>>
    /\ TOKEN_AMOUNTS # <<>>

----------------------------------------------------------------------------
(* Claims about utils/transaction_cache.rs *)
\* the latest insert into `history` for the mint is younger than `ms`
InsertedWithin(history, mint, ms) ==
    mint \in DOMAIN history /\ instant - history[mint] < ms

ReadsAsInserted ==
    \A m \in Mints :
        /\ get_fresh_mint_transaction(m) # None
               <=> InsertedWithin(inserted.fresh, m, 30000)
        /\ get_fresh_mint_transaction(m) # None
               => get_fresh_mint_transaction(m)[1].cached_at = inserted.fresh[m]
        /\ get_general_transaction(m) # None
               <=> InsertedWithin(inserted.general, m, 60000)
        /\ get_general_transaction(m) # None
               => get_general_transaction(m)[1].cached_at = inserted.general[m]
        /\ has_valid_transaction(m)
               <=> (get_fresh_mint_transaction(m) # None
                    \/ get_general_transaction(m) # None)

\* a step of cleanup_expired leaves every read, made now or at any later
\* instant, with the result it had before the step
SweepKeepsReads ==
    sweep' # sweep =>
        \A m \in Mints, at \in CacheInstants :
            at >= instant =>
                /\ fresh_lookup(fresh_mints', m, at)
                       = fresh_lookup(fresh_mints, m, at)
                /\ general_lookup(general_cache', m, at)
                       = general_lookup(general_cache, m, at)

\* a has_valid_transaction call answers true iff one of the two reads, made
\* in the state the call met, returns an entry
LookIsEither ==
    looked' # looked =>
        looked'.result = (get_fresh_mint_transaction(looked'.mint) # None
                          \/ get_general_transaction(looked'.mint) # None)

\* C30: get_fresh_mint_transaction(m) returns an entry iff one was inserted for
\* m less than 30 s ago, get_general_transaction(m) iff one was inserted less
\* than 60 s ago, has_valid_transaction(m) is true iff either returns an
\* entry, and no step of cleanup_expired changes the result of a read.
C30_CacheExpiry ==
    []ReadsAsInserted /\ [][SweepKeepsReads /\ LookIsEither]_vars

\* a sweep has removed the expired fresh entry of a mint whose general entry
\* is 30 s old, which a has_valid_transaction call found; the other mint's
\* entries are still in both maps, the fresh one 30 s and the general one
\* 60 s old, and no read returns them
C30_Witness ==
    \E m, o \in Mints :
        /\ m \in DOMAIN inserted.fresh /\ m \notin DOMAIN fresh_mints
        /\ m \in DOMAIN general_cache
        /\ general_cache[m].cached_at = 30000
        /\ has_valid_transaction(m)
        /\ looked = [called |-> TRUE, mint |-> m, result |-> TRUE]
        /\ o \in DOMAIN fresh_mints /\ o \in DOMAIN general_cache
        /\ fresh_mints[o].cached_at = 30000 /\ instant = 60000
        /\ general_cache[o].cached_at = 0
        /\ ~has_valid_transaction(o)
----------------------------------------------------------------------------
(* Claims about the pool keys, the compute budget and the bonding curve *)
\* C31: derive_pool_keys_for_migrated_token is a function of the mint: two
\* calls with the same mint return the same keys; every call succeeds with
\* the config of index 0; base_mint is the byte-wise smaller and quote_mint
\* the byte-wise larger of the mint and the wrapped-native mint, and the
\* vaults are derived from base_mint and quote_mint respectively.
C31_PoolKeys ==
    /\ \A i, j \in DOMAIN derived :
           derived[i].mint = derived[j].mint
               => derived[i].result = derived[j].result
    /\ \A i \in DOMAIN derived :
        LET mint == derived[i].mint
            keys == derived[i].result.value
        IN  /\ derived[i].result.ok
            /\ keys.config_id = derive_config_id(RAYDIUM_CPMM_PROGRAM_ID, 0)
            /\ {keys.base_mint, keys.quote_mint} = {mint, WSOL_MINT}
            /\ ~bytes_less(to_bytes(keys.quote_mint), to_bytes(keys.base_mint))
            /\ keys.base_vault = derive_vault(RAYDIUM_CPMM_PROGRAM_ID,
                                              keys.pool_id, keys.base_mint)
            /\ keys.quote_vault = derive_vault(RAYDIUM_CPMM_PROGRAM_ID,
                                               keys.pool_id, keys.quote_mint)

\* two calls for M4, whose bytes follow the wrapped-native mint's from the
\* second byte on, and one for M3, whose bytes precede them
C31_Witness ==
    /\ Len(derived) = 3
    /\ derived[1].mint = "M4" /\ derived[2].mint = "M3"
    /\ derived[3].mint = "M4"
    /\ derived[1].result.value.base_mint = WSOL_MINT
    /\ derived[2].result.value.base_mint = "M3"

\* the whole number nearest to fee * 10^9 / 250,000, halves away from zero,
\* for a fee held in tenths of a lamport
NearestPrice(fee_sol) ==
    CHOOSE r \in 0..(fee_sol \div 2500000 + 1) :
        /\ 2 * fee_sol >= 5000000 * r - 2500000
        /\ 2 * fee_sol < 5000000 * r + 2500000

LoopBounded ==
    /\ curve.passes <= 10001
    /\ curve.out <= 10001
    /\ curve.out <= curve.passes

\* a step taken inside the loop ends the call or is one more pass
PassAdvances ==
    curve.pc = "loop" =>
        \/ curve'.pc \in {"returned", "panicked"}
        \/ curve'.pc = "loop" /\ curve'.passes = curve.passes + 1

\* C33: the loop of min_tokens_out ends for every state of the virtual
\* reserves and every lamport input: each step inside it ends the call or
\* adds one to a count of passes that never exceeds 10,001; the count of
\* tokens it returns is at most 10,001.
C33_LoopTerminates == []LoopBounded /\ [][PassAdvances]_vars

\* the call with reserves of 20,000 and 20,000 and 1 SOL has returned at the cap
C33_Witness ==
    /\ curve.pc = "returned"
    /\ curve.out = 10001 /\ curve.passes = 10001

\* C34: min_tokens_out never panics: for every state of the bonding curve,
\* virtual token reserves of 0 or reaching 0 in the loop included, and every
\* lamport input it returns a value.
C34_NeverPanics == curve.pc # "panicked"
----------------------------------------------------------------------------
(* Claims about trades that share a key *)
\* task a rolls back its failed trade while task b's later entry for the
\* same key, written after a's window had expired, is inside its own window
RollbackUnderLaterTrade(a, b) ==
    /\ a # b
    /\ pc[a] = "FAILED_SUBMIT" /\ pc'[a] = "DONE_FAILED"
    /\ pc[b] \in {"PENDING_SUBMIT", "SUBMITTED"}
    /\ arg[a] = arg[b]
    /\ marked_at[b] - marked_at[a] > PENDING_TIMEOUT_MS
    /\ arg[b] \in DOMAIN PENDING_BUYS
    /\ PENDING_BUYS[arg[b]] = marked_at[b]
    /\ now - marked_at[b] <= PENDING_TIMEOUT_MS

\* C35: the rollback of one trade never removes the pending entry a
\* different, later trade wrote for the same (wallet, mint): after trade A's
\* window expired and trade B marked the key, A's rollback leaves B's entry
\* in place and should_allow_buy stays false until B's own window ends.
C35_RollbackSparesLaterTrade ==
    [][\A a, b \in Tasks :
          RollbackUnderLaterTrade(a, b) =>
              /\ arg[b] \in DOMAIN PENDING_BUYS'
              /\ PENDING_BUYS'[arg[b]] = marked_at[b]
              /\ ~should_allow_buy(arg[b][1], arg[b][2])'
      ]_vars

\* task t is about to write what remains after its sell while task u, whose
\* sell of the same mint read the same cached amount N, has already written
\* its own remainder and not yet returned
SecondWriteOfTwoSells(t, u) ==
    /\ t # u
    /\ build_pc[t] = "update" /\ build_pc'[t] = "built"
    /\ build_pc[u] = "built"
    /\ build[t].side = "Sell" /\ build[u].side = "Sell"
    /\ build[t].mint = build[u].mint
    /\ build[t].current_amount # None
    /\ build[u].current_amount = build[t].current_amount
    /\ build[t].amount + build[u].amount < build[t].current_amount[1]
    /\ <<me, build[t].mint>> \in DOMAIN TOKEN_AMOUNTS
    /\ TOKEN_AMOUNTS[<<me, build[t].mint>>]
           = build[t].current_amount[1] - build[u].amount

\* C36: when two build_sell_transaction calls for the same (signer, mint) with
\* token amounts a and b, a + b < N, both read the cached amount N and run
\* concurrently, the second of their writes leaves the cached amount at
\* N - a - b.
C36_NoLostUpdate ==
    [][\A t, u \in Tasks :
          SecondWriteOfTwoSells(t, u) =>
              /\ <<me, build[t].mint>> \in DOMAIN TOKEN_AMOUNTS'
              /\ TOKEN_AMOUNTS'[<<me, build[t].mint>>]
                     = build[t].current_amount[1] - build[t].amount - build[u].amount
      ]_vars


\* C37: every Sell plan StrategyEngine::on_fill emits, once completed with
\* known_token_amount = N, makes build_tx_from_plan hand the venue's sell
\* builder a token amount of at most N.
C37_SellAtMostKnown ==
    (/\ planned.called
     /\ planned.plan.side = "Sell"
     /\ planned.result.ok)
        => planned.result.tx.amount <= planned.plan.known_token_amount[1]


\* cache_fresh_mint(mint, ..) called in this state returns Ok(()) at its
\* "already cached" check, before any await
ReturnsOkAtCheck(mint) == mint \in DOMAIN fresh_mints

\* a step in which cache_fresh_mint(mint, ..) inserts its entry and returns Ok
ReturnsOkAfterInsert(mint) ==
    /\ mint \in caching /\ mint \notin caching'
    /\ mint \in DOMAIN fresh_mints'
    /\ fresh_mints'[mint].cached_at = instant

\* C38: whenever cache_fresh_mint(m, ..) returns Ok, at its check or after its
\* insert, get_fresh_mint_transaction(m) called at once returns an entry,
\* also when the map holds an expired entry for m that no sweep has removed.
C38_OkMeansReadable ==
    /\ [](\A m \in Mints :
            ReturnsOkAtCheck(m) => get_fresh_mint_transaction(m) # None)
    /\ [][\A m \in Mints :
            ReturnsOkAfterInsert(m) => get_fresh_mint_transaction(m)' # None]_vars


\* C39: for every StrategyEngine, also one constructed after another engine
\* exists, the PositionManager its TakeProfit consults is the one the engine's
\* own positions field refers to.
C39_OwnPositions ==
    \A i \in 1..Len(engines) :
        consulted_by_take_profit(engines[i]) = Some(engines[i].positions)

\* C40: FollowBuy emits no plan for a fill whose wallet_label is that of a
\* tracked wallet with enabled = false: a fill it mirrors carries the label
\* of a wallet enabled_wallets() returns and of no disabled wallet.
C40_DisabledNotFollowed ==
    (fill # NoFill /\ FollowBuy_on_fill(fill, settings) # <<>>) =>
        /\ \E i \in 1..Len(enabled_wallets(settings)) :
               enabled_wallets(settings)[i].label = fill.wallet_label
        /\ \A i \in 1..Len(settings.tracked_wallets) :
               settings.tracked_wallets[i].label = fill.wallet_label
                   => settings.tracked_wallets[i].enabled

====
